---- MODULE Spec2Model ----
(***************************************************************************)
(* ShowUI-Aloha, execution side (Aloha_Act): the client process            *)
(* (app_client.py), the sampling loop (sampling_loop.py), the action       *)
(* decomposer and executor (aloha_executor.py) and the argument checks of  *)
(* the computer tool (tools/computer.py).                                  *)
(*                                                                         *)
(* Threads are modelled at statement granularity wherever a statement      *)
(* reads or writes the SharedState object; a generator is advanced by the  *)
(* worker thread that iterates it.                                         *)
(***************************************************************************)
EXTENDS Integers, Sequences, FiniteSets, TLC

(***************************************************************************)
(* Bounds of the exploration.                                              *)
(***************************************************************************)
\* HTTP requests (run_task or stop) the client receives in one behaviour
MaxReqs == 2
\* --max_steps the client process is launched with (argparse input)
ArgMaxSteps == 2
\* monitors attached to the host
NumScreens == 1

\* request slots: MaxReqs for the general specifications, one more for the
\* specification of a stop between two runs
Reqs == 1 .. MaxReqs + 1

(***************************************************************************)
(* Python values.  A dict field is a tagged record; k = "absent" stands    *)
(* for a key that is not in the dict, k = "none" for the value None.       *)
(***************************************************************************)
Absent == [k |-> "absent"]
None == [k |-> "none"]
XY(x, y) == [k |-> "xy", x |-> x, y |-> y]
Str(s) == [k |-> "str", s |-> s]
Num(n) == [k |-> "num", n |-> n]
List(q) == [k |-> "list", q |-> q]
\* the float t / 10
Flt(t) == [k |-> "float", tenths |-> t]
\* str(n) of an int n, and str(f) of the float ms / 1000
IntStr(n) == [k |-> "intstr", n |-> n]
FloatStr(ms) == [k |-> "floatstr", milli |-> ms]

IsStrValue(v) == v.k \in {"str", "intstr", "floatstr"}

\* a canonical action dict with nothing but its tag
Item(tag) ==
    [action |-> tag, position |-> Absent, value |-> Absent, text |-> Absent,
     from |-> Absent, to |-> Absent, start |-> Absent, end |-> Absent,
     ms |-> Absent, seconds |-> Absent, direction |-> Absent]

\* dict.get(key) with the default None
GetOrNone(v) == IF v.k = "absent" THEN None ELSE v

\* one low-level tool call of the decomposition
Op(a, t, c) == [action |-> a, text |-> t, coordinate |-> c]

\* result of a parser: the list, or the exception that _parse_actor_output
\* turns into None
Parsed(ops) == [ok |-> TRUE, ops |-> ops]
ParseFailed == [ok |-> FALSE, ops |-> <<>>]

(***************************************************************************)
(* AlohaExecutor: vocabulary and parsers.                                  *)
(***************************************************************************)
supported_actions ==
    {"CLICK", "RIGHT_CLICK", "INPUT", "MOVE", "HOVER", "ENTER", "ESC",
     "ESCAPE", "PRESS", "KEY", "HOTKEY", "DRAG", "SCROLL", "DOUBLE_CLICK",
     "TRIPLE_CLICK", "WAIT", "PAUSE", "CONTINUE"}

\* str(...).upper() on the tags the planner is modelled to send
Upper(tag) ==
    CASE tag = "click" -> "CLICK"
      [] tag = "stop" -> "STOP"
      [] OTHER -> tag

\* x, y = item["position"]; int(x), int(y)
PositionOk(item) == item.position.k = "xy"

\* faulty CLICK parser: the click is emitted without the move in front
_parse_click_unmoved(item) ==
    IF PositionOk(item)
    THEN Parsed(<<Op("left_click", None, item.position)>>)
    ELSE ParseFailed

_parse_click(item) ==
    IF PositionOk(item)
    THEN Parsed(<<Op("mouse_move", None, item.position),
                  Op("left_click", None, item.position)>>)
    ELSE ParseFailed

_parse_right_click(item) ==
    IF PositionOk(item)
    THEN Parsed(<<Op("mouse_move", None, item.position),
                  Op("right_click", None, item.position)>>)
    ELSE ParseFailed

_parse_input(item) ==
    IF item.text.k # "absent" THEN Parsed(<<Op("type", item.text, None)>>)
    ELSE IF item.value.k # "absent" THEN Parsed(<<Op("type", item.value, None)>>)
    ELSE ParseFailed

_parse_move(item) ==
    IF PositionOk(item)
    THEN Parsed(<<Op("mouse_move", None, item.position)>>)
    ELSE ParseFailed

_parse_enter(item) == Parsed(<<Op("key", Str("Enter"), None)>>)

_parse_escape(item) == Parsed(<<Op("key", Str("Escape"), None)>>)

_parse_press(item) ==
    IF PositionOk(item)
    THEN Parsed(<<Op("mouse_move", None, item.position),
                  Op("left_press", None, None)>>)
    ELSE ParseFailed

\* faulty KEY parser: a list value is handed to one key operation whole
_parse_key_or_hotkey_joined(item) ==
    Parsed(<<Op("key", GetOrNone(item.value), None)>>)

_parse_key_or_hotkey(item) ==
    LET v == GetOrNone(item.value) IN
    IF v.k = "list"
    THEN Parsed([i \in 1 .. Len(v.q) |-> Op("key", v.q[i], None)])
    ELSE Parsed(<<Op("key", v, None)>>)

\* faulty to_xy: any value that is given passes for a coordinate
ToXyOk_lenient(v) == v.k \notin {"absent", "none"}

\* to_xy: a list or tuple of at least two numbers
ToXyOk(v) == v.k = "xy"

\* faulty priority: the last key that is present and not None wins
FirstGiven_reversed(vals) ==
    LET idx == {i \in 1 .. Len(vals) : vals[i].k \notin {"absent", "none"}} IN
    IF idx = {} THEN None
    ELSE vals[CHOOSE i \in idx : \A j \in idx : i >= j]

\* first key of the priority list that is present and not None
FirstGiven(vals) ==
    LET idx == {i \in 1 .. Len(vals) : vals[i].k \notin {"absent", "none"}} IN
    IF idx = {} THEN None
    ELSE vals[CHOOSE i \in idx : \A j \in idx : i <= j]

\* faulty DRAG parser: a missing end point is not an error, the move to the
\* start is emitted alone
_parse_drag_partial(item) ==
    LET s == FirstGiven(<<item.from, item.start, item.value>>)
        e == FirstGiven(<<item.to, item.end, item.position>>)
    IN  IF s.k = "none" \/ ~ToXyOk(s) THEN ParseFailed
        ELSE IF e.k = "none" \/ ~ToXyOk(e)
        THEN Parsed(<<Op("mouse_move", None, s)>>)
        ELSE Parsed(<<Op("mouse_move", None, s),
                      Op("left_click_drag", None, e)>>)

_parse_drag(item) ==
    LET s == FirstGiven(<<item.from, item.start, item.value>>)
        e == FirstGiven(<<item.to, item.end, item.position>>)
    IN  IF s.k = "none" \/ e.k = "none" THEN ParseFailed
        ELSE IF ~ToXyOk(s) \/ ~ToXyOk(e) THEN ParseFailed
        ELSE Parsed(<<Op("mouse_move", None, s),
                      Op("left_click_drag", None, e)>>)

_parse_double_click(item) ==
    IF PositionOk(item)
    THEN Parsed(<<Op("mouse_move", None, item.position),
                  Op("double_click", None, None)>>)
    ELSE ParseFailed

_parse_triple_click(item) ==
    IF PositionOk(item)
    THEN Parsed(<<Op("mouse_move", None, item.position),
                  Op("triple_click", None, None)>>)
    ELSE ParseFailed

\* faulty WAIT parser: seconds is taken whenever it is given
_parse_wait_seconds_first(item) ==
    LET ms == IF item.ms.k = "absent" THEN Num(5000) ELSE item.ms IN
    IF item.seconds.k = "num"
    THEN Parsed(<<Op("wait", IntStr(item.seconds.n), None)>>)
    ELSE IF ms.k # "num" THEN ParseFailed
    ELSE Parsed(<<Op("wait", FloatStr(ms.n), None)>>)

\* (item.get("ms", 5000) / 1000) or item.get("seconds", 5)
_parse_wait(item) ==
    LET ms == IF item.ms.k = "absent" THEN Num(5000) ELSE item.ms
        sec == IF item.seconds.k = "absent" THEN Num(5) ELSE item.seconds
    IN  IF ms.k # "num" THEN ParseFailed
        ELSE IF ms.n # 0 THEN Parsed(<<Op("wait", FloatStr(ms.n), None)>>)
        ELSE IF sec.k = "num" THEN Parsed(<<Op("wait", IntStr(sec.n), None)>>)
        ELSE IF sec.k = "none" THEN Parsed(<<Op("wait", Str("None"), None)>>)
        ELSE Parsed(<<Op("wait", sec, None)>>)

_parse_pause(item) == Parsed(<<Op("__no_op__", Str("PAUSE"), None)>>)

_parse_continue(item) == Parsed(<<Op("__no_op__", Str("CONTINUE"), None)>>)

\* int(float(v)): an int as it is, a float truncated toward zero, a string
\* parsed when it spells a number; None when the conversion raises
IntOfFloat(v) ==
    CASE v.k = "num" -> Num(v.n)
      [] v.k = "float" ->
            Num(IF v.tenths >= 0 THEN v.tenths \div 10
                ELSE 0 - ((0 - v.tenths) \div 10))
      [] v.k = "intstr" -> Num(v.n)
      [] OTHER -> None

\* faulty SCROLL parser: the amount is passed on with its sign unchanged
_parse_scroll_unsigned(item) ==
    LET val == GetOrNone(item.value)
        scroll_y == IF val.k = "xy" THEN Num(val.y) ELSE val
        sy == IntOfFloat(scroll_y)
    IN  IF sy.k # "num" THEN ParseFailed
        ELSE IF item.position.k \in {"absent", "none"}
             THEN Parsed(<<Op("scroll", IntStr(sy.n), None)>>)
        ELSE IF item.position.k # "xy" THEN ParseFailed
        ELSE Parsed(<<Op("mouse_move", None, item.position),
                      Op("scroll", IntStr(sy.n), item.position)>>)

_parse_scroll(item) ==
    LET val == GetOrNone(item.value)
        scroll_y == IF val.k = "xy" THEN Num(val.y) ELSE val
        sy == IntOfFloat(scroll_y)
    IN  IF sy.k # "num" THEN ParseFailed
        ELSE IF item.position.k \in {"absent", "none"}
             THEN Parsed(<<Op("scroll", IntStr(0 - sy.n), None)>>)
        ELSE IF item.position.k # "xy" THEN ParseFailed
        ELSE Parsed(<<Op("mouse_move", None, item.position),
                      Op("scroll", IntStr(0 - sy.n), item.position)>>)

\* the dispatch table self._parsers
_parsers(name, item) ==
    CASE name = "CLICK" -> _parse_click(item)
      [] name = "RIGHT_CLICK" -> _parse_right_click(item)
      [] name = "INPUT" -> _parse_input(item)
      [] name \in {"MOVE", "HOVER"} -> _parse_move(item)
      [] name = "ENTER" -> _parse_enter(item)
      [] name \in {"ESC", "ESCAPE"} -> _parse_escape(item)
      [] name = "PRESS" -> _parse_press(item)
      [] name \in {"KEY", "HOTKEY"} -> _parse_key_or_hotkey(item)
      [] name = "DRAG" -> _parse_drag(item)
      [] name = "SCROLL" -> _parse_scroll(item)
      [] name = "DOUBLE_CLICK" -> _parse_double_click(item)
      [] name = "TRIPLE_CLICK" -> _parse_triple_click(item)
      [] name = "WAIT" -> _parse_wait(item)
      [] name = "PAUSE" -> _parse_pause(item)
      [] name = "CONTINUE" -> _parse_continue(item)
      [] OTHER -> ParseFailed

\* faulty decomposer: a tag outside the vocabulary is acknowledged like
\* PAUSE instead of being rejected
_parse_actor_output_lenient(item) ==
    LET action_name == Upper(item.action) IN
    IF action_name \notin supported_actions
    THEN Parsed(<<Op("__no_op__", Str(action_name), None)>>)
    ELSE _parsers(action_name, [item EXCEPT !.action = action_name])

\* upper-case the tag, reject what is outside the vocabulary, dispatch;
\* every exception becomes None (here: ParseFailed)
_parse_actor_output(item) ==
    LET action_name == Upper(item.action) IN
    IF action_name \notin supported_actions THEN ParseFailed
    ELSE _parsers(action_name, [item EXCEPT !.action = action_name])

(***************************************************************************)
(* ComputerTool: the argument checks of each handler.  TRUE when the       *)
(* handler raises ToolError for this call.                                 *)
(***************************************************************************)
_require_coordinate_fails(coordinate) == coordinate.k # "xy"

ToolRaises(op) ==
    CASE op.action \in {"mouse_move", "left_click_drag"} ->
            _require_coordinate_fails(op.coordinate)
      [] op.action \in {"key", "type", "key_down", "key_up"} ->
            \/ op.text.k = "none"
            \/ op.coordinate.k # "none"
            \/ ~IsStrValue(op.text)
      [] op.action \in {"left_click", "right_click", "double_click",
                        "triple_click", "middle_click", "left_press"} ->
            op.text.k # "none"
      [] op.action \in {"scroll_down", "scroll_up"} -> op.text.k # "none"
      [] op.action = "scroll" -> op.text.k \notin {"intstr", "floatstr"}
      [] op.action \in {"screenshot", "cursor_position"} ->
            op.text.k # "none" \/ op.coordinate.k # "none"
      [] op.action = "wait" -> FALSE
      [] OTHER -> TRUE

\* type attribute of a ToolResult built without an explicit type
ToolResultType == "action"

\* ToolCollection.run: the tool's ToolResult, or the ToolError it raised,
\* handed back as a value
ToolCollection_run(op) ==
    IF ToolRaises(op) THEN [cls |-> "ToolError", type |-> "error"]
    ELSE [cls |-> "ToolResult", type |-> ToolResultType]

(***************************************************************************)
(* Messages of the result stream.  src names the yield that produced it.   *)
(***************************************************************************)
Msg(type, src) == [type |-> type, src |-> src]

\* AlohaExecutor.__call__, no-op branch
NoopMessage == Msg("action", "noop")

\* faulty executor: the ToolError branch is missing
ResultMessages_no_error_branch(tool_result) ==
    IF tool_result.cls = "ToolResult" THEN <<Msg(tool_result.type, "exec")>>
    ELSE <<>>

\* AlohaExecutor.__call__, the two isinstance branches: the messages
\* yielded for one tool result (none when it is neither class)
ResultMessages(tool_result) ==
    IF tool_result.cls = "ToolResult" THEN <<Msg(tool_result.type, "exec")>>
    ELSE IF tool_result.cls = "ToolError" THEN <<Msg("error", "exec")>>
    ELSE <<>>

\* AlohaExecutor.__call__: the guard in front of the execution loop
HasActions(parsed) == parsed.ok /\ Len(parsed.ops) > 0

\* faulty STOP test: the tag compared in the wrong case
IsStopAction_lowercase(item) == item.action = "stop"

\* sampling loop: the test that ends the run on the planner's STOP
IsStopAction(item) == item.action = "STOP"

(***************************************************************************)
(* Inputs.                                                                 *)
(***************************************************************************)
\* host platforms; darwin takes the same branches as windows in everything
\* modelled here
Systems == {"windows", "linux"}

AllKeys == {"task", "selected_screen", "trace_id", "server_url", "max_steps"}

Payload(has, t, sc, tr, url, ms) ==
    [has |-> has, task |-> t, selected_screen |-> sc, trace_id |-> tr,
     server_url |-> url, max_steps |-> ms]

\* request bodies of /run_task
PayloadMin == Payload({"task"}, "t1", 0, "", "", 0)
PayloadFull == Payload(AllKeys, "t2", 0, "tr2", "u2", ArgMaxSteps + 1)
PayloadBadScreen == Payload({"task", "selected_screen"}, "t3", NumScreens, "", "", 0)
PayloadNoTask == Payload({"max_steps"}, "", 0, "", "", ArgMaxSteps + 1)

\* data.get(key, default)
Get(data, key, default) == IF key \in data.has THEN data[key] ELSE default

\* canonical actions the planner is modelled to return
ActClick == [Item("CLICK") EXCEPT !.position = XY(100, 200)]
ActStop == Item("STOP")
ActTeleport == Item("TELEPORT")
ActDragNoEnd == [Item("DRAG") EXCEPT !.from = XY(10, 10)]
ActKeyList == [Item("KEY") EXCEPT !.value = List(<<None, Str("a")>>)]
ActPause == Item("PAUSE")

\* what send_inference_request hands back: nothing, a reply that lacks a
\* field the loop reads, or a plan with an action
NoResponse == [k |-> "none", action |-> Item("")]
BadResponse == [k |-> "malformed", action |-> Item("")]
Plan(item) == [k |-> "plan", action |-> item]

LoopResponses ==
    {NoResponse, BadResponse} \cup
    {Plan(a) : a \in {ActClick, ActStop, ActTeleport, ActDragNoEnd,
                      ActKeyList, ActPause}}

(***************************************************************************)
(* State.                                                                  *)
(***************************************************************************)
VARIABLES
    system,             \* platform.system() of the host
    task, selected_screen, trace_id, server_url, max_steps,  \* SharedState
    is_processing, should_stop, stop_event, processing_thread,
    req,                \* HTTP handler threads, one per request
    wk,                 \* process_input threads, named by the starting request
    gen,                \* the simple_sampling_loop generator of each worker
    raised_by,          \* history: the request that last raised a stop flag
    call                \* one call of a function studied by itself

shared == <<task, selected_screen, trace_id, server_url, max_steps,
            is_processing, should_stop, stop_event, processing_thread>>
vars == <<system, task, selected_screen, trace_id, server_url, max_steps,
          is_processing, should_stop, stop_event, processing_thread,
          req, wk, gen, raised_by, call>>

RunArgs(t, sc, tr, url, ms) ==
    [task |-> t, selected_screen |-> sc, trace_id |-> tr, server_url |-> url,
     max_steps |-> ms]

NoArgs == RunArgs("", 0, "", "", 0)

NewReq == [kind |-> "none", pc |-> "new", data |-> PayloadMin, reply |-> "none",
           during |-> {}]

NewWorker == [pc |-> "unborn", end |-> "none", after_stop |-> -1,
              started_with |-> NoArgs]

NewGen ==
    [pc |-> "none", args |-> NoArgs, step_count |-> 0, action_history |-> <<>>,
     step_action |-> Item(""), action_list |-> <<>>, idx |-> 0,
     in_flight |-> 0, iter_msgs |-> <<>>, iter_ops |-> 0]

\* no function is called by itself in the specifications of the client
NoCall == [fn |-> "none"]

\* SharedState.__init__ with the argparse defaults of main()
Constructed ==
    /\ system \in Systems
    /\ task = "t0"
    /\ selected_screen = 0
    /\ trace_id = "example_trace"
    /\ server_url = "default_url"
    /\ max_steps = ArgMaxSteps
    /\ is_processing = FALSE
    /\ should_stop = FALSE
    /\ stop_event = FALSE
    /\ processing_thread = 0
    /\ req = [r \in Reqs |-> NewReq]
    /\ wk = [r \in Reqs |-> NewWorker]
    /\ gen = [r \in Reqs |-> NewGen]
    /\ raised_by = 0

Init == Constructed /\ call = NoCall

Alive(w) == wk[w].pc \notin {"unborn", "done"}

(***************************************************************************)
(* HTTP handler threads (Flask, threaded=True).                            *)
(***************************************************************************)
\* a request reaches the client: Flask hands it to a fresh handler thread
Arrive(r, kinds, payloads) ==
    /\ req[r].pc = "new"
    /\ \A q \in Reqs : q < r => req[q].pc # "new"
    /\ \E kd \in kinds, d \in payloads :
          /\ kd = "stop" => d = PayloadMin
          /\ req' = [req EXCEPT ![r] = [kind |-> kd, pc |-> "check",
                                        data |-> d, reply |-> "none",
                                        during |-> {}]]
    /\ UNCHANGED <<system, call, shared, wk, gen, raised_by>>

\* run_task, line 92: the test that turns a second start away
RunTaskRejects == is_processing

\* run_task, lines 85-93: body validation and the already-running test
RunTaskCheck(r) ==
    /\ req[r].kind = "run_task" /\ req[r].pc = "check"
    /\ req' = [req EXCEPT ![r] =
                 IF "task" \notin req[r].data.has
                 THEN [@ EXCEPT !.pc = "done", !.reply = "error_400"]
                 ELSE IF RunTaskRejects
                 THEN [@ EXCEPT !.pc = "done", !.reply = "error_409"]
                 ELSE [@ EXCEPT !.pc = "update"]]
    /\ UNCHANGED <<system, call, shared, wk, gen, raised_by>>

\* run_task, lines 96-100: runtime parameters taken from the body
\* (started_with keeps them as this request resolved them)
RunTaskUpdate(r) ==
    /\ req[r].kind = "run_task" /\ req[r].pc = "update"
    /\ task' = Get(req[r].data, "task", task)
    /\ selected_screen' = Get(req[r].data, "selected_screen", selected_screen)
    /\ trace_id' = Get(req[r].data, "trace_id", trace_id)
    /\ server_url' = Get(req[r].data, "server_url", server_url)
    /\ max_steps' = Get(req[r].data, "max_steps", max_steps)
    /\ req' = [req EXCEPT ![r].pc = "clear"]
    /\ wk' = [wk EXCEPT ![r].started_with =
                 RunArgs(task', selected_screen', trace_id', server_url',
                         max_steps')]
    /\ UNCHANGED <<system, call, is_processing, should_stop, stop_event,
                   processing_thread, gen, raised_by>>

\* run_task, line 102: stop_event.clear()
RunTaskClear(r) ==
    /\ req[r].kind = "run_task" /\ req[r].pc = "clear"
    /\ stop_event' = FALSE
    /\ req' = [req EXCEPT ![r].pc = "start"]
    /\ UNCHANGED <<system, call, task, selected_screen, trace_id, server_url,
                   max_steps, is_processing, should_stop, processing_thread,
                   wk, gen, raised_by>>

\* run_task, lines 103-106: the worker thread is created and started
RunTaskStart(r) ==
    /\ req[r].kind = "run_task" /\ req[r].pc = "start"
    /\ processing_thread' = r
    /\ wk' = [wk EXCEPT ![r].pc = "l42"]
    /\ req' = [req EXCEPT ![r].pc = "done", ![r].reply = "success"]
    /\ UNCHANGED <<system, call, task, selected_screen, trace_id, server_url,
                   max_steps, is_processing, should_stop, stop_event, gen,
                   raised_by>>

\* faulty stop test: the request is never turned away
StopRejects_never == FALSE

\* stop, line 112: the test that turns a stop away when nothing runs
StopRejects == ~is_processing

\* the workers that have set is_processing and not yet cleared it
Running ==
    {w \in Reqs :
        wk[w].pc \in {"l43", "l44", "l47", "next", "chk56", "chk70", "fin76"}}

\* stop, lines 111-113 (during keeps the runs the request was accepted in)
StopCheck(r) ==
    /\ req[r].kind = "stop" /\ req[r].pc = "check"
    /\ req' = [req EXCEPT ![r] =
                 IF StopRejects
                 THEN [@ EXCEPT !.pc = "done", !.reply = "error_400"]
                 ELSE [@ EXCEPT !.pc = "l115", !.during = Running]]
    /\ UNCHANGED <<system, call, shared, wk, gen, raised_by>>

\* stop, line 115: should_stop = True
StopSetFlag(r) ==
    /\ req[r].kind = "stop" /\ req[r].pc = "l115"
    /\ should_stop' = TRUE
    /\ raised_by' = r
    /\ req' = [req EXCEPT ![r].pc = "l116"]
    /\ UNCHANGED <<system, call, task, selected_screen, trace_id, server_url,
                   max_steps, is_processing, stop_event, processing_thread,
                   wk, gen>>

\* stop, lines 116-118: stop_event.set() and the success reply; every
\* worker alive at the reply starts counting the messages it still takes
\* (after_stop: -1 no stop accepted, 0, 1, and 2 for two or more)
StopSetEvent(r) ==
    /\ req[r].kind = "stop" /\ req[r].pc = "l116"
    /\ stop_event' = TRUE
    /\ raised_by' = r
    /\ req' = [req EXCEPT ![r].pc = "done", ![r].reply = "success"]
    /\ wk' = [w \in Reqs |->
                IF Alive(w) /\ wk[w].after_stop = -1
                THEN [wk[w] EXCEPT !.after_stop = 0] ELSE wk[w]]
    /\ UNCHANGED <<system, call, task, selected_screen, trace_id, server_url,
                   max_steps, is_processing, should_stop, processing_thread,
                   gen>>

(***************************************************************************)
(* process_input: the worker thread.                                       *)
(***************************************************************************)
\* line 42
WkSetProcessing(w) ==
    /\ wk[w].pc = "l42"
    /\ is_processing' = TRUE
    /\ wk' = [wk EXCEPT ![w].pc = "l43"]
    /\ UNCHANGED <<system, call, task, selected_screen, trace_id, server_url,
                   max_steps, should_stop, stop_event, processing_thread,
                   req, gen, raised_by>>

\* line 43
WkClearShouldStop(w) ==
    /\ wk[w].pc = "l43"
    /\ should_stop' = FALSE
    /\ wk' = [wk EXCEPT ![w].pc = "l44"]
    /\ UNCHANGED <<system, call, task, selected_screen, trace_id, server_url,
                   max_steps, is_processing, stop_event, processing_thread,
                   req, gen, raised_by>>

\* line 44
WkClearStopEvent(w) ==
    /\ wk[w].pc = "l44"
    /\ stop_event' = FALSE
    /\ wk' = [wk EXCEPT ![w].pc = "l47"]
    /\ UNCHANGED <<system, call, task, selected_screen, trace_id, server_url,
                   max_steps, is_processing, should_stop, processing_thread,
                   req, gen, raised_by>>

\* lines 47-53: the generator object is created from the shared parameters
\* as they are now; its body has not started
WkCreateLoop(w) ==
    /\ wk[w].pc = "l47"
    /\ gen' = [gen EXCEPT ![w] =
                 [NewGen EXCEPT !.pc = "l35",
                     !.args = RunArgs(task, selected_screen, trace_id,
                                      server_url, max_steps)]]
    /\ wk' = [wk EXCEPT ![w].pc = "next"]
    /\ UNCHANGED <<system, call, shared, req, raised_by>>

\* lines 56 and 70: the cancellation test
StopRequested == should_stop \/ stop_event

\* line 56: first test after a message has been received
WkCheck56(w) ==
    /\ wk[w].pc = "chk56"
    /\ wk' = [wk EXCEPT ![w] =
                IF StopRequested
                THEN [@ EXCEPT !.pc = "fin76", !.end = "cancelled"]
                ELSE [@ EXCEPT !.pc = "chk70"]]
    /\ UNCHANGED <<system, call, shared, req, gen, raised_by>>

\* lines 59-71: log, sleep 0.1 s, second test
WkCheck70(w) ==
    /\ wk[w].pc = "chk70"
    /\ wk' = [wk EXCEPT ![w] =
                IF StopRequested
                THEN [@ EXCEPT !.pc = "fin76", !.end = "cancelled"]
                ELSE [@ EXCEPT !.pc = "next"]]
    /\ UNCHANGED <<system, call, shared, req, gen, raised_by>>

\* line 76
WkFinProcessing(w) ==
    /\ wk[w].pc = "fin76"
    /\ is_processing' = FALSE
    /\ wk' = [wk EXCEPT ![w].pc = "fin77"]
    /\ UNCHANGED <<system, call, task, selected_screen, trace_id, server_url,
                   max_steps, should_stop, stop_event, processing_thread,
                   req, gen, raised_by>>

\* line 77
WkFinShouldStop(w) ==
    /\ wk[w].pc = "fin77"
    /\ should_stop' = FALSE
    /\ wk' = [wk EXCEPT ![w].pc = "fin78"]
    /\ UNCHANGED <<system, call, task, selected_screen, trace_id, server_url,
                   max_steps, is_processing, stop_event, processing_thread,
                   req, gen, raised_by>>

\* lines 78-79: the thread ends; its generator is garbage
WkFinStopEvent(w) ==
    /\ wk[w].pc = "fin78"
    /\ stop_event' = FALSE
    /\ wk' = [wk EXCEPT ![w].pc = "done"]
    /\ gen' = [gen EXCEPT ![w] = NewGen]
    /\ UNCHANGED <<system, call, task, selected_screen, trace_id, server_url,
                   max_steps, is_processing, should_stop, processing_thread,
                   req, raised_by>>

(***************************************************************************)
(* simple_sampling_loop, advanced by next() of the worker's for loop.      *)
(***************************************************************************)
\* the generator yields m: the worker holds it and goes to line 56
Yield(w, g, m) ==
    /\ gen' = [gen EXCEPT ![w] = [g EXCEPT !.iter_msgs = Append(@, m)]]
    /\ wk' = [wk EXCEPT ![w].pc = "chk56",
                        ![w].after_stop = IF @ \in {0, 1} THEN @ + 1 ELSE @]

\* the generator returns: the for loop ends, finally runs
Return(w, g) ==
    /\ gen' = [gen EXCEPT ![w] = [g EXCEPT !.pc = "end"]]
    /\ wk' = [wk EXCEPT ![w].pc = "fin76", ![w].end = "exhausted"]

\* an exception leaves the generator: except logs it, finally runs
Raise(w, g) ==
    /\ gen' = [gen EXCEPT ![w] = [g EXCEPT !.pc = "raised"]]
    /\ wk' = [wk EXCEPT ![w].pc = "fin76", ![w].end = "exception"]

\* AlohaExecutor.__init__: _get_selected_screen_offset and ComputerTool()
\* raise IndexError for an index outside the monitors of a windows or darwin
\* host; on any other host ComputerTool.__init__ reads the local `screen`
\* that only the windows and darwin branches bind
ExecutorInitRaises(sys, screen) ==
    IF sys \in {"windows", "darwin"}
    THEN screen < 0 \/ screen >= NumScreens
    ELSE TRUE

\* lines 31-44: first next(): history, executor, step_count = 1
GenStart(w) ==
    /\ wk[w].pc = "next" /\ gen[w].pc = "l35"
    /\ IF ExecutorInitRaises(system, gen[w].args.selected_screen)
       THEN Raise(w, gen[w])
       ELSE /\ gen' = [gen EXCEPT ![w].pc = "l47", ![w].step_count = 1,
                                  ![w].action_history = <<>>]
            /\ UNCHANGED wk
    /\ UNCHANGED <<system, call, shared, req, raised_by>>

\* faulty loop test: while step_count <= max_steps
GenWhile_inclusive(w) ==
    /\ wk[w].pc = "next" /\ gen[w].pc = "l47"
    /\ IF gen[w].step_count <= gen[w].args.max_steps
       THEN /\ gen' = [gen EXCEPT ![w].pc = "l54"]
            /\ UNCHANGED wk
       ELSE Return(w, [gen[w] EXCEPT !.action_history = <<>>])
    /\ UNCHANGED <<system, call, shared, req, raised_by>>

\* line 47: while step_count < max_steps; line 127 when it is false
GenWhile(w) ==
    /\ wk[w].pc = "next" /\ gen[w].pc = "l47"
    /\ IF gen[w].step_count < gen[w].args.max_steps
       THEN /\ gen' = [gen EXCEPT ![w].pc = "l54"]
            /\ UNCHANGED wk
       ELSE Return(w, [gen[w] EXCEPT !.action_history = <<>>])
    /\ UNCHANGED <<system, call, shared, req, raised_by>>

\* lines 52-62: screenshot of the iteration, yielded as image_base64
GenCapture(w) ==
    /\ wk[w].pc = "next" /\ gen[w].pc = "l54"
    /\ Yield(w, [gen[w] EXCEPT !.pc = "l74", !.iter_msgs = <<>>,
                               !.iter_ops = 0, !.action_list = <<>>,
                               !.idx = 0, !.step_action = Item("")],
             Msg("image_base64", "screenshot"))
    /\ UNCHANGED <<system, call, shared, req, raised_by>>

\* lines 65-104: planner request; no response or an unreadable one yields
\* an error and leaves the loop, a plan yields its observation
GenPlan(w, responses) ==
    /\ wk[w].pc = "next" /\ gen[w].pc = "l74"
    /\ \E resp \in responses :
          CASE resp.k = "none" ->
                  Yield(w, [gen[w] EXCEPT !.pc = "l88", !.action_history = <<>>],
                        Msg("error", "no_response"))
            [] resp.k = "malformed" ->
                  Yield(w, [gen[w] EXCEPT !.pc = "l101"],
                        Msg("error", "parse_error"))
            [] OTHER ->
                  Yield(w, [gen[w] EXCEPT !.pc = "l105",
                                          !.step_action = resp.action],
                        Msg("text", "observation"))
    /\ UNCHANGED <<system, call, shared, req, raised_by>>

\* lines 88 and 101: break, then line 127
GenBreak(w) ==
    /\ wk[w].pc = "next" /\ gen[w].pc \in {"l88", "l101"}
    /\ Return(w, [gen[w] EXCEPT !.action_history = <<>>])
    /\ UNCHANGED <<system, call, shared, req, raised_by>>

\* line 105
GenReasoning(w) ==
    /\ wk[w].pc = "next" /\ gen[w].pc = "l105"
    /\ Yield(w, [gen[w] EXCEPT !.pc = "l107"], Msg("text", "reasoning"))
    /\ UNCHANGED <<system, call, shared, req, raised_by>>

\* lines 107-112: on STOP the final screenshot is captured and the
\* completion text yielded
GenStopText(w) ==
    /\ wk[w].pc = "next" /\ gen[w].pc = "l107"
    /\ IsStopAction(gen[w].step_action)
    /\ Yield(w, [gen[w] EXCEPT !.pc = "l113"], Msg("text", "completed"))
    /\ UNCHANGED <<system, call, shared, req, raised_by>>

\* line 113
GenStopImage(w) ==
    /\ wk[w].pc = "next" /\ gen[w].pc = "l113"
    /\ Yield(w, [gen[w] EXCEPT !.pc = "l116"],
             Msg("image_base64", "final_screenshot"))
    /\ UNCHANGED <<system, call, shared, req, raised_by>>

\* lines 116-117 and 127: history reset, break, generator returns
GenStopBreak(w) ==
    /\ wk[w].pc = "next" /\ gen[w].pc = "l116"
    /\ Return(w, [gen[w] EXCEPT !.action_history = <<>>])
    /\ UNCHANGED <<system, call, shared, req, raised_by>>

\* lines 119-121 and executor lines 78-95: history entry, the action is
\* decomposed, the execution loop is entered when there is a list
GenAct(w) ==
    /\ wk[w].pc = "next" /\ gen[w].pc = "l107"
    /\ ~IsStopAction(gen[w].step_action)
    /\ LET parsed == _parse_actor_output(gen[w].step_action) IN
       gen' = [gen EXCEPT ![w] =
                 [@ EXCEPT !.action_history = Append(@, gen[w].step_action.action),
                           !.action_list = IF HasActions(parsed) THEN parsed.ops
                                           ELSE <<>>,
                           !.idx = 1,
                           !.pc = IF HasActions(parsed) THEN "x98" ELSE "l124"]]
    /\ UNCHANGED <<system, call, shared, req, wk, raised_by>>

\* where the executor's for loop goes after the operation at idx
AfterOp(g) == IF g.idx < Len(g.action_list) THEN "x98" ELSE "l124"

\* faulty executor: the tool call is started but not awaited, its message
\* is yielded while the operation is still running
ExecOpBegin_not_awaited(w) ==
    /\ wk[w].pc = "next" /\ gen[w].pc = "x98"
    /\ LET op == gen[w].action_list[gen[w].idx] IN
       IF op.action = "__no_op__"
       THEN Yield(w, [gen[w] EXCEPT !.pc = AfterOp(gen[w]), !.idx = @ + 1],
                  NoopMessage)
       ELSE Yield(w, [gen[w] EXCEPT !.pc = "x129", !.in_flight = gen[w].idx,
                                    !.iter_ops = @ + 1],
                  Msg(ToolResultType, "exec"))
    /\ UNCHANGED <<system, call, shared, req, raised_by>>

\* executor lines 98-134: next operation of the list; a no-op is
\* acknowledged at once, any other is handed to the tool (the screen offset
\* added at lines 99-106 keeps a coordinate a pair of ints, so it changes no
\* outcome of the tool's argument checks and is not carried here)
ExecOpBegin(w) ==
    /\ wk[w].pc = "next" /\ gen[w].pc = "x98"
    /\ LET op == gen[w].action_list[gen[w].idx] IN
       IF op.action = "__no_op__"
       THEN Yield(w, [gen[w] EXCEPT !.pc = AfterOp(gen[w]), !.idx = @ + 1],
                  NoopMessage)
       ELSE /\ gen' = [gen EXCEPT ![w].pc = "x129", ![w].in_flight = gen[w].idx,
                                  ![w].iter_ops = @ + 1]
            /\ UNCHANGED wk
    /\ UNCHANGED <<system, call, shared, req, raised_by>>

\* executor lines 129-151: the tool call returns and its result is yielded
ExecOpEnd(w) ==
    /\ wk[w].pc = "next" /\ gen[w].pc = "x129"
    /\ LET op == gen[w].action_list[gen[w].idx]
           ms == ResultMessages(ToolCollection_run(op))
           g == [gen[w] EXCEPT !.pc = AfterOp(gen[w]), !.idx = @ + 1,
                               !.in_flight = 0]
       IN  IF ms = <<>>
           THEN gen' = [gen EXCEPT ![w] = g] /\ UNCHANGED wk
           ELSE Yield(w, g, ms[1])
    /\ UNCHANGED <<system, call, shared, req, raised_by>>

\* line 124
GenStepCount(w) ==
    /\ wk[w].pc = "next" /\ gen[w].pc = "l124"
    /\ gen' = [gen EXCEPT ![w].pc = "l47", ![w].step_count = @ + 1]
    /\ UNCHANGED <<system, call, shared, req, wk, raised_by>>

(***************************************************************************)
(* Specifications.                                                         *)
(***************************************************************************)
Handler(r) ==
    \/ RunTaskCheck(r) \/ RunTaskUpdate(r) \/ RunTaskClear(r) \/ RunTaskStart(r)
    \/ StopCheck(r) \/ StopSetFlag(r) \/ StopSetEvent(r)

Worker(w) ==
    \/ WkSetProcessing(w) \/ WkClearShouldStop(w) \/ WkClearStopEvent(w)
    \/ WkCreateLoop(w) \/ WkCheck56(w) \/ WkCheck70(w)
    \/ WkFinProcessing(w) \/ WkFinShouldStop(w) \/ WkFinStopEvent(w)

Loop(w, responses) ==
    \/ GenStart(w) \/ GenWhile(w) \/ GenCapture(w) \/ GenPlan(w, responses)
    \/ GenBreak(w) \/ GenReasoning(w) \/ GenStopText(w) \/ GenStopImage(w)
    \/ GenStopBreak(w) \/ GenAct(w) \/ ExecOpBegin(w) \/ ExecOpEnd(w)
    \/ GenStepCount(w)

\* one run at a time in the life of the client: a single /run_task among the
\* requests, /stop requests before, during and after it, every planner answer
OneRunKinds ==
    IF \E q \in Reqs : req[q].kind = "run_task" THEN {"stop"}
    ELSE {"run_task", "stop"}

Next ==
    \E r \in 1 .. MaxReqs :
        \/ Arrive(r, OneRunKinds,
                  {PayloadMin, PayloadFull, PayloadBadScreen, PayloadNoTask})
        \/ Handler(r)
        \/ Worker(r)
        \/ Loop(r, LoopResponses)

Spec == Init /\ [][Next]_vars

\* concurrent starts: two /run_task requests handled by two Flask threads,
\* against a planner that does not answer
NextRace ==
    \E r \in 1 .. MaxReqs :
        \/ Arrive(r, {"run_task"}, {PayloadMin, PayloadFull})
        \/ RunTaskCheck(r) \/ RunTaskUpdate(r) \/ RunTaskClear(r)
        \/ RunTaskStart(r)
        \/ Worker(r)
        \/ GenStart(r) \/ GenWhile(r) \/ GenCapture(r)
        \/ GenPlan(r, {NoResponse}) \/ GenBreak(r)

SpecRace == Init /\ [][NextRace]_vars

(***************************************************************************)
(* Properties.                                                             *)
(***************************************************************************)
Workers == {w \in Reqs : Alive(w)}

\* C1: under every interleaving of concurrent /run_task requests at most one
\* worker thread (process_input with its sampling loop) exists at a time.
C1_AtMostOneWorker == Cardinality(Workers) <= 1

\* C2: a /run_task handled while a worker thread is started and not yet
\* finished gets the already-running error, and every run executes with the
\* parameters of the request that started it.
C2_ActiveRunUndisturbed ==
    [][/\ \A r \in Reqs :
            (/\ req[r].kind = "run_task" /\ req[r].pc = "check"
             /\ "task" \in req[r].data.has
             /\ Workers # {}
             /\ req'[r] # req[r])
            => (req'[r].reply = "error_409" /\ UNCHANGED shared)
       /\ \A w \in Reqs :
            gen'[w].pc # "none" => gen'[w].args = wk'[w].started_with]_vars

\* C3: after a /stop got its success reply the signal is not lost: a worker
\* alive at that moment takes at most one further message from its loop.
C3_StopNeverLost == \A w \in Reqs : wk[w].after_stop <= 1

\* C5: a /stop that finds no task processing is answered with an error and
\* writes nothing; a stop flag is only ever raised by a request that was not
\* turned away, so a run cancelled later was not cancelled by a rejected one.
C5_IdleStopRejected ==
    [][/\ \A r \in Reqs :
            (/\ req[r].kind = "stop" /\ req[r].pc = "check"
             /\ ~is_processing
             /\ req'[r] # req[r])
            => (/\ req'[r].pc = "done" /\ req'[r].reply = "error_400"
                /\ UNCHANGED <<is_processing, should_stop, stop_event>>)
       /\ (should_stop' \/ stop_event') =>
            (/\ raised_by' \in Reqs
             /\ req'[raised_by'].kind = "stop"
             /\ req'[raised_by'].reply # "error_400")
       /\ \A w \in Reqs :
            wk'[w].end = "cancelled" =>
                \E r \in Reqs : /\ req'[r].kind = "stop"
                                /\ req'[r].pc \in {"l116", "done"}
                                /\ req'[r].reply # "error_400"]_vars

\* a stop was turned away while idle and the run started after it has passed
\* its first cancellation test untouched
C5_Witness ==
    \E r \in Reqs, w \in Reqs :
        /\ req[r].kind = "stop" /\ req[r].reply = "error_400"
        /\ r < w /\ wk[w].pc = "chk70"
        /\ ~should_stop /\ ~stop_event

\* C6: however a run ends, when its worker thread finishes the client is
\* idle: is_processing false, should_stop false, stop_event clear.
C6_RunEndsIdle ==
    [][\A w \in Reqs :
          (wk[w].pc # "done" /\ wk'[w].pc = "done")
          => (~is_processing' /\ ~should_stop' /\ ~stop_event')]_vars

\* C4 as stated: when a worker leaves its loop on the stop flag, every
\* primitive operation of the action decomposed in the current iteration has
\* been executed (no mouse_move is left without the operation after it).
C4_IterationRunsToEnd ==
    \A w \in Reqs :
        (wk[w].end = "cancelled" /\ gen[w].action_list # <<>>) =>
            gen[w].idx > Len(gen[w].action_list)

\* C4, amended: the stop flag is tested only when the worker holds a message
\* of the result stream, so a primitive operation that has started always
\* completes and yields its message before the flag is looked at; the
\* operations that remain in the list are not executed.
C4_StartedOperationCompletes ==
    [][\A w \in Reqs :
          /\ wk'[w].pc # "next" => gen'[w].in_flight = 0
          /\ (gen[w].in_flight # 0 /\ gen'[w] # gen[w]) =>
                (/\ gen'[w].in_flight = 0
                 /\ gen'[w].idx = gen[w].idx + 1
                 /\ Len(gen'[w].iter_msgs) = Len(gen[w].iter_msgs) + 1)
          /\ wk'[w].end = "cancelled" =>
                gen'[w].pc \in {"none", "l74", "l88", "l101", "l105", "l107",
                                "l113", "l116", "x98", "l124"}]_vars

\* cancelled after the mouse_move of a CLICK, its left_click never issued
C4_Witness ==
    \E w \in Reqs :
        /\ wk[w].end = "cancelled"
        /\ gen[w].step_action = ActClick
        /\ gen[w].iter_ops = 1 /\ gen[w].idx = 2 /\ gen[w].in_flight = 0

\* C7: an action tagged STOP is never decomposed or executed: no primitive
\* operation runs in its iteration, the loop goes through the completion
\* text and the final screenshot and returns, and no further iteration
\* (screenshot, planner request, device operation) follows.
C7_StopNeverExecuted ==
    \A w \in Reqs :
        gen[w].step_action.action = "STOP" =>
            /\ gen[w].iter_ops = 0 /\ gen[w].in_flight = 0
            /\ gen[w].action_list = <<>>
            /\ gen[w].step_count = Len(gen[w].action_history) + 1
               \/ gen[w].pc = "end"
            /\ gen[w].pc \in {"l105", "l107", "l113", "l116", "end"}
            /\ gen[w].pc \in {"l116", "end"} =>
                  /\ Len(gen[w].iter_msgs) = 5
                  /\ gen[w].iter_msgs[4] = Msg("text", "completed")
                  /\ gen[w].iter_msgs[5] = Msg("image_base64", "final_screenshot")

\* the loop returned after a STOP
C7_Witness ==
    \E w \in Reqs :
        /\ gen[w].step_action.action = "STOP" /\ gen[w].pc = "end"
        /\ wk[w].end = "exhausted"

\* C8: an action whose tag is outside the vocabulary (TELEPORT) fails to
\* decompose, executes no primitive operation and yields nothing, and the
\* loop goes on: step count incremented, and the next iteration's screenshot
\* taken whenever the step budget allows.
C8_UnknownTagSkipped ==
    [][\A w \in Reqs :
          (gen[w].step_action.action = "TELEPORT" /\ gen'[w] # gen[w]
           /\ wk'[w].pc # "done") =>
             /\ gen'[w].iter_ops = 0 /\ gen'[w].in_flight = 0
             /\ gen[w].pc = "l107" =>
                   (gen'[w].pc = "l124" /\ wk'[w] = wk[w]
                    /\ gen'[w].iter_msgs = gen[w].iter_msgs)
             /\ gen[w].pc = "l124" =>
                   (/\ gen'[w].pc = "l47"
                    /\ gen'[w].step_count = gen[w].step_count + 1)
             /\ (gen[w].pc = "l47"
                 /\ gen[w].step_count < gen[w].args.max_steps) =>
                   gen'[w].pc = "l54"
             /\ gen[w].pc = "l54" =>
                   (/\ gen'[w].pc = "l74"
                    /\ gen'[w].iter_msgs = <<Msg("image_base64", "screenshot")>>)
      ]_vars

\* the iteration after a TELEPORT has sent its planner request
C8_Witness ==
    \E w \in Reqs :
        /\ gen[w].step_count = 2
        /\ gen[w].action_history = <<"TELEPORT">>
        /\ gen[w].pc \in {"l105", "l88", "l101"}
        /\ gen[w].iter_ops = 0

\* actions of the planner whose decomposition fails
FailingActions == {ActTeleport, ActDragNoEnd}

ExecMsgs(g) == SubSeq(g.iter_msgs, 4, Len(g.iter_msgs))

\* C10: the executor yields one message per primitive operation, in order;
\* an operation whose arguments the tool rejects gives a message of type
\* "error" and the operations after it are still attempted.
C10_OneMessagePerOperation ==
    \A w \in Reqs :
        (gen[w].action_list # <<>> /\ gen[w].step_action.action # "STOP") =>
            LET em == ExecMsgs(gen[w]) IN
            /\ Len(em) = gen[w].idx - 1
            /\ \A i \in 1 .. Len(em) :
                  LET op == gen[w].action_list[i] IN
                  /\ (op.action # "__no_op__" /\ ToolRaises(op)) =>
                         em[i] = Msg("error", "exec")
                  /\ (op.action # "__no_op__" /\ ~ToolRaises(op)) =>
                         em[i] = Msg(ToolResultType, "exec")
                  /\ op.action = "__no_op__" => em[i] = NoopMessage
            /\ gen[w].pc \in {"l124", "l47", "end"} =>
                  gen[w].idx = Len(gen[w].action_list) + 1
            /\ gen[w].pc \in {"x98", "x129"} =>
                  gen[w].idx <= Len(gen[w].action_list)

\* KEY with the list [None, "a"]: the first key fails in the tool, the
\* second is pressed all the same
C10_Witness ==
    \E w \in Reqs :
        /\ gen[w].step_action = ActKeyList /\ gen[w].pc = "l124"
        /\ ExecMsgs(gen[w]) = <<Msg("error", "exec"), Msg(ToolResultType, "exec")>>

\* the run of generator g met a planner request that returned no response:
\* the error of line 84 is the last message the loop yielded
NoResponseRun(g) ==
    /\ g.pc \in {"l88", "end"}
    /\ g.iter_msgs # <<>>
    /\ g.iter_msgs[Len(g.iter_msgs)] = Msg("error", "no_response")

\* the loop's part of C11 as a step of generator w: a planner request
\* without a response yields exactly one message of type error after the
\* screenshot, no primitive operation runs in the iteration, and the
\* generator's only further step is its return: no step count, no
\* screenshot, no request
NoResponseLeavesLoop(w) ==
    /\ (gen[w].pc = "l74" /\ gen'[w].pc = "l88") =>
          /\ gen'[w].iter_msgs = <<Msg("image_base64", "screenshot"),
                                   Msg("error", "no_response")>>
          /\ gen'[w].iter_ops = 0 /\ gen'[w].in_flight = 0
          /\ gen'[w].action_history = <<>>
    /\ (gen[w].pc = "l88" /\ gen'[w] # gen[w]) =>
          /\ gen'[w].pc \in {"end", "none"}
          /\ gen'[w].pc = "end" =>
                (/\ gen'[w].iter_msgs = gen[w].iter_msgs
                 /\ gen'[w].step_count = gen[w].step_count
                 /\ gen'[w].iter_ops = 0
                 /\ wk'[w].pc = "fin76")
    /\ (NoResponseRun(gen[w]) /\ gen[w].pc = "end" /\ gen'[w] # gen[w]) =>
          gen'[w].pc = "none"

\* C11: when the planner request returns no response the loop yields one
\* error message, runs no primitive operation, starts no further iteration,
\* and when the worker thread of that run finishes the client is idle
\* (is_processing false, should_stop false, stop_event clear).
C11_NoResponseEndsRun ==
    [][\A w \in Reqs :
          /\ NoResponseLeavesLoop(w)
          /\ (NoResponseRun(gen[w]) /\ wk[w].pc # "done"
              /\ wk'[w].pc = "done") =>
                (~is_processing' /\ ~should_stop' /\ ~stop_event')]_vars

(***************************************************************************)
(* The decomposer by itself: one canonical action handed to                *)
(* _parse_actor_output.                                                    *)
(***************************************************************************)
\* longest list given as the value of KEY or HOTKEY
MaxKeys == 3

\* lists of key names of every length up to MaxKeys
KeyLists ==
    UNION {[1 .. n -> {Str("a"), Str("ctrl")}] : n \in 0 .. MaxKeys}

KeyItems ==
    {[Item(t) EXCEPT !.value = v] :
        t \in {"KEY", "HOTKEY"},
        v \in {Absent, None, Str("ctrl+s")} \cup {List(q) : q \in KeyLists}}

\* actions that read item["position"], and the tags without a payload
PositionItems ==
    {[Item(t) EXCEPT !.position = p] :
        t \in {"CLICK", "RIGHT_CLICK", "MOVE", "HOVER", "PRESS", "DOUBLE_CLICK",
               "TRIPLE_CLICK", "ENTER", "ESC", "ESCAPE", "PAUSE", "CONTINUE",
               "click", "STOP", "ERROR", "TELEPORT"},
        p \in {Absent, None, XY(100, 200), Str("center")}}

InputItems ==
    {[Item("INPUT") EXCEPT !.text = t, !.value = v] :
        t \in {Absent, Str("hi")}, v \in {Absent, None, Str("yo")}}

\* every combination of the six fields DRAG looks at
DragItems ==
    {[Item("DRAG") EXCEPT !.from = f, !.to = t, !.start = s, !.end = e,
                          !.value = v, !.position = p] :
        f \in {Absent, None, XY(10, 10), Str("a")},
        t \in {Absent, None, XY(50, 60), Str("b")},
        s \in {Absent, None, XY(1, 2)},
        e \in {Absent, None, XY(3, 4)},
        v \in {Absent, None, XY(5, 6), Num(9)},
        p \in {Absent, None, XY(7, 8)}}

ScrollItems ==
    {[Item("SCROLL") EXCEPT !.value = v, !.position = p] :
        v \in {Absent, None, Num(120), Num(0 - 3), Num(0), XY(0, 300),
               XY(7, 0 - 5), Flt(25), Flt(0 - 25), Flt(1200), IntStr(120),
               Str("down"), List(<<Num(1)>>)},
        p \in {Absent, None, XY(960, 540), Str("center")}}

WaitItems ==
    {[Item("WAIT") EXCEPT !.ms = m, !.seconds = s] :
        m \in {Absent, None, Num(0), Num(2000), Num(1500)},
        s \in {Absent, None, Num(0), Num(3)}}

DecompItems ==
    KeyItems \cup PositionItems \cup InputItems \cup DragItems
        \cup ScrollItems \cup WaitItems

InitDecomp ==
    /\ Constructed
    /\ \E item \in DecompItems :
          call = [fn |-> "_parse_actor_output", arg |-> item, done |-> FALSE,
                  out |-> ParseFailed]

\* AlohaExecutor._parse_actor_output(item)
Decompose ==
    /\ call.fn = "_parse_actor_output" /\ ~call.done
    /\ call' = [call EXCEPT !.done = TRUE,
                            !.out = _parse_actor_output(call.arg)]
    /\ UNCHANGED <<system, shared, req, wk, gen, raised_by>>

NextDecomp == Decompose

SpecDecomp == InitDecomp /\ [][NextDecomp]_vars

\* the call of the decomposer has returned a list (not None)
Decomposed == call.fn = "_parse_actor_output" /\ call.done /\ call.out.ok

\* C12 as stated: every successful decomposition is a sequence of exactly
\* 1 or 2 primitive operations.
C12_OneOrTwoOperations ==
    Decomposed => Len(call.out.ops) \in {1, 2}

\* C12, amended: a successful decomposition is a sequence of 1 or 2
\* primitive operations, except for KEY and HOTKEY with a list value, which
\* give one key operation per element of the list in the list's order: none
\* for the empty list, more than two for a longer one.
C12_OneOrTwoExceptKeyList ==
    Decomposed =>
        LET item == call.arg
            ops == call.out.ops
        IN  IF Upper(item.action) \in {"KEY", "HOTKEY"} /\ item.value.k = "list"
            THEN /\ Len(ops) = Len(item.value.q)
                 /\ \A i \in 1 .. Len(ops) :
                       ops[i] = Op("key", item.value.q[i], None)
            ELSE Len(ops) \in {1, 2}

\* a KEY whose list has more than two names has been decomposed
C12_Witness ==
    /\ Decomposed
    /\ call.arg.action = "KEY" /\ call.arg.value.k = "list"
    /\ Len(call.arg.value.q) > 2
    /\ Len(call.out.ops) = Len(call.arg.value.q)

(***************************************************************************)
(* The action normalizers (act/gui_agent/actor/agents).                    *)
(***************************************************************************)
\* tags of the canonical vocabulary: what the decomposer dispatches on, and
\* the two tags the loop and the normalizers use for the end of the task and
\* for a failure
CanonicalTags == supported_actions \cup {"STOP", "ERROR"}

\* what a normalizer returns: the dict (an Item; action_key is FALSE when the
\* dict has no "action" key), or the exception that left the function
Returned(has_key, item) == [raised |-> FALSE, action_key |-> has_key, item |-> item]
Raised == [raised |-> TRUE, action_key |-> FALSE, item |-> Item("")]

\* {"action": "ERROR", "value": <diagnostic>, "position": [0, 0]}
ErrorAction(msg) ==
    [Item("ERROR") EXCEPT !.value = Str(msg), !.position = XY(0, 0)]

\* getattr(obj, name, default)
Attr(v, default) == IF v.k = "absent" THEN default ELSE v

\* sep.join(parts) of a list of strings; one part is that part whatever sep
Joined(sep, parts) ==
    [k |-> "joined", sep |-> IF Len(parts) <= 1 THEN "" ELSE sep,
     parts |-> parts]

\* str.strip(), str.lower() and the test of is_printable_char on the key
\* names the backend is modelled to send
Strip(t) ==
    CASE t = " " -> ""
      [] t = "cmd " -> "cmd"
      [] t = " Page_Down" -> "Page_Down"
      [] OTHER -> t

Lower(t) ==
    CASE t = "A" -> "a"
      [] t = "Shift" -> "shift"
      [] t = "Space" -> "space"
      [] t = "Enter" -> "enter"
      [] t = "ESC" -> "esc"
      [] t = "Page_Up" -> "page_up"
      [] OTHER -> t

is_printable_char(tok) == tok \in {"a", "A", "7", " "}

modifiers ==
    {"ctrl", "control", "shift", "alt", "meta", "cmd", "command", "win",
     "super"}

\* [t for t in q if t]: the names that are not empty, in order
RECURSIVE DropBlank(_)
DropBlank(q) ==
    IF q = <<>> THEN <<>>
    ELSE IF Head(q) # "" THEN <<Head(q)>> \o DropBlank(Tail(q))
    ELSE DropBlank(Tail(q))

\* oai_operator_agent.py lines 169-174: the token list of a keypress; keys
\* is a list of names, or a string (k = "plus": its pieces between "+")
KeyTokens(keys) ==
    IF keys.k = "list"
    THEN DropBlank([i \in 1 .. Len(keys.q) |-> Strip(keys.q[i])])
    ELSE [i \in 1 .. Len(keys.parts) |-> Strip(keys.parts[i])]

\* lines 165-221: keypress
ParseKeypress(keys) ==
    LET tokens == KeyTokens(keys)
        lower_tokens == [i \in 1 .. Len(tokens) |-> Lower(tokens[i])]
        has_modifier_or_special ==
            \E i \in 1 .. Len(tokens) : lower_tokens[i] \in modifiers
        all_printable_chars ==
            \A i \in 1 .. Len(tokens) : is_printable_char(tokens[i])
    IN  IF tokens # <<>> /\ ~has_modifier_or_special /\ all_printable_chars
        THEN [Item("INPUT") EXCEPT !.value = Joined("", tokens),
                                   !.position = Str("")]
        ELSE IF Len(tokens) = 1 /\ lower_tokens[1] = "space"
        THEN [Item("INPUT") EXCEPT !.value = Str(" "), !.position = Str("")]
        ELSE [Item("KEY") EXCEPT !.value = Joined("+", lower_tokens),
                                 !.position = Str("")]

\* the action object of a computer call: its type and the attributes it may
\* carry (Absent: the object has no such attribute)
CallAction(type) ==
    [type |-> type, x |-> Absent, y |-> Absent, button |-> Absent,
     keys |-> Absent, scroll_x |-> Absent, scroll_y |-> Absent,
     text |-> Absent, path |-> Absent]

\* items of response.output
ComputerCall(action) == [type |-> "computer_call", action |-> action, text |-> ""]
OutputText(text) == [type |-> "output_text", action |-> CallAction(""), text |-> text]
Reasoning == [type |-> "reasoning", action |-> CallAction(""), text |-> ""]

\* OAIOperatorAgent.action_type_convert
oai_action_type_convert ==
    [click |-> "CLICK", double_click |-> "DOUBLE_CLICK", move |-> "MOVE",
     scroll |-> "SCROLL", wait |-> "WAIT", type |-> "INPUT", drag |-> "DRAG",
     keypress |-> "KEY", screenshot |-> "SCREENSHOT"]

\* str(button).lower() == "right"
ButtonIsRight(button) == button.k = "str" /\ button.s \in {"right", "Right"}

IsPoint(p) == p.k = "xy"

\* lines 247-264: drag; None when points[0] raises IndexError
ParseDrag(action) ==
    LET path == Attr(action.path, None)
        seq == IF path.k = "list" THEN path.q ELSE <<>>
        given == SelectSeq(seq, IsPoint)
        points == IF given = <<>> /\ action.x.k # "absent"
                     /\ action.y.k # "absent"
                  THEN <<XY(action.x.n, action.y.n)>>
                  ELSE given
    IN  IF points = <<>> THEN None
        ELSE [k |-> "dict",
              item |-> [Item("DRAG") EXCEPT !.start = points[1],
                                            !.end = points[Len(points)]]]

\* lines 139-267: one computer call.  acc is the function's local state:
\* action_json (action_key, item), computer_call_found, last_output_text,
\* and whether an exception has left the function
ParseCall(action, acc) ==
    LET found == [acc EXCEPT !.found = TRUE]
        set(item) == [found EXCEPT !.action_key = TRUE, !.item = item]
        x == Attr(action.x, Num(0))
        y == Attr(action.y, Num(0))
        t == action.type
    IN  IF t \notin DOMAIN oai_action_type_convert THEN found
        ELSE IF t \in {"click", "move", "double_click"}
        THEN LET action_name ==
                    IF t = "click"
                    THEN IF ButtonIsRight(Attr(action.button, Str("left")))
                         THEN "RIGHT_CLICK" ELSE "CLICK"
                    ELSE IF t = "double_click" THEN "DOUBLE_CLICK"
                    ELSE "MOVE"
             IN  set([Item(action_name) EXCEPT !.value = Str(""),
                                               !.position = XY(x.n, y.n)])
        ELSE IF t = "keypress"
        THEN set(ParseKeypress(Attr(action.keys, [k |-> "plus", parts |-> <<"">>])))
        ELSE IF t = "scroll"
        THEN LET scroll_x == Attr(action.scroll_x, Num(0))
                 scroll_y == Attr(action.scroll_y, Num(0))
             IN  IF scroll_y.k # "num" THEN [found EXCEPT !.raised = TRUE]
                 ELSE set([Item(oai_action_type_convert[t]) EXCEPT
                             !.direction = IF scroll_y.n > 0 THEN Str("down")
                                           ELSE Str("up"),
                             !.position = XY(x.n, y.n),
                             !.value = XY(scroll_x.n, scroll_y.n)])
        ELSE IF t = "wait"
        THEN set([Item(oai_action_type_convert[t]) EXCEPT
                    !.value = Str(""), !.position = Str("")])
        ELSE IF t = "type"
        THEN set([Item(oai_action_type_convert[t]) EXCEPT
                    !.value = Attr(action.text, Str("")),
                    !.position = Str("")])
        ELSE IF t = "drag"
        THEN LET d == ParseDrag(action) IN
             IF d.k = "none" THEN [found EXCEPT !.raised = TRUE]
             ELSE set(d.item)
        ELSE found

\* lines 135-278: the loop over response.output
RECURSIVE ParseOutputs(_, _)
ParseOutputs(outputs, acc) ==
    IF outputs = <<>> \/ acc.raised THEN acc
    ELSE LET item == Head(outputs)
             nxt == IF item.type = "computer_call"
                    THEN ParseCall(item.action, acc)
                    ELSE IF item.type = "output_text"
                    THEN [acc EXCEPT !.last_output_text = item.text]
                    ELSE acc
         IN  ParseOutputs(Tail(outputs), nxt)

\* OAIOperatorAgent._parse_response
OAI_parse_response(outputs) ==
    LET acc == ParseOutputs(outputs,
                   [raised |-> FALSE, action_key |-> FALSE, item |-> Item(""),
                    found |-> FALSE, last_output_text |-> ""])
    IN  IF acc.raised THEN Raised
        ELSE IF ~acc.found
        THEN Returned(TRUE,
                 ErrorAction(IF acc.last_output_text # ""
                             THEN acc.last_output_text
                             ELSE "No computer_call found in output. Re-run the planning."))
        ELSE Returned(acc.action_key, acc.item)

\* what can go wrong around one execute(): no API client, a logger or none,
\* a screenshot file that cannot be read, a prompt template that does not
\* render, a backend call that raises, a log directory that cannot be made
Faults(cl, lg, sc, rd, be, ld) ==
    [client |-> cl, logger |-> lg, screenshot_ok |-> sc, render_ok |-> rd,
     backend_ok |-> be, logdir_ok |-> ld]

NoFault == Faults(TRUE, TRUE, TRUE, TRUE, TRUE, TRUE)

\* result of execute(): the pair (action, complete_flag), or the exception
Done(ret, complete) ==
    [raised |-> ret.raised, action_key |-> ret.action_key, item |-> ret.item,
     complete |-> complete]

\* the except clause of execute(): logger.log_error creates the log
\* directory outside its own try (logger_utils.py lines 244-245), so it
\* raises when the directory cannot be made; log_json and log_text catch
\* everything and never raise
ExceptClause(f) ==
    IF f.logger /\ ~f.logdir_ok THEN Done(Raised, FALSE)
    ELSE Done(Returned(TRUE, ErrorAction("exception")), FALSE)

\* action_json.get("action") == "STOP"
CompleteFlag(ret) == ret.action_key /\ ret.item.action = "STOP"

\* OAIOperatorAgent.execute
OAI_execute(f, outputs) ==
    IF ~f.client
    THEN Done(Returned(TRUE, ErrorAction("OpenAI client not initialized; missing API key")),
              FALSE)
    ELSE IF ~f.screenshot_ok THEN Done(Raised, FALSE)
    ELSE IF ~f.backend_ok THEN ExceptClause(f)
    ELSE LET ret == OAI_parse_response(outputs) IN
         IF ret.raised THEN ExceptClause(f) ELSE Done(ret, CompleteFlag(ret))

\* items of response.content
TextBlock == [type |-> "text", action |-> "", coordinate |-> Absent]
ToolUse(action, coordinate) ==
    [type |-> "tool_use", action |-> action, coordinate |-> coordinate]

\* ClaudeComputerUseAgent.action_type_convert
claude_action_type_convert ==
    [left_click |-> "CLICK", double_click |-> "DOUBLE_CLICK",
     triple_click |-> "TRIPLE_CLICK", mouse_move |-> "MOVE",
     scroll |-> "SCROLL", wait |-> "WAIT", key |-> "KEY", type |-> "TYPE",
     left_click_drag |-> "DRAG", keypress |-> "KEY"]

\* lines 123-151: the loop over response.content; acc as in ParseOutputs
RECURSIVE ParseContent(_, _)
ParseContent(content, acc) ==
    IF content = <<>> \/ acc.raised THEN acc
    ELSE LET item == Head(content)
             nxt ==
                IF item.type = "tool_use"
                   /\ item.action \in DOMAIN claude_action_type_convert
                   /\ item.action = "left_click"
                THEN IF item.coordinate.k # "xy"
                     THEN [acc EXCEPT !.found = TRUE, !.raised = TRUE]
                     ELSE [acc EXCEPT
                             !.found = TRUE, !.action_key = TRUE,
                             !.item =
                                [Item(claude_action_type_convert[item.action])
                                    EXCEPT !.value = Str(""),
                                           !.position =
                                              XY((item.coordinate.x * 1920) \div 1024,
                                                 (item.coordinate.y * 1080) \div 768)]]
                ELSE acc
         IN  ParseContent(Tail(content), nxt)

\* ClaudeComputerUseAgent._parse_response
Claude_parse_response(content) ==
    LET acc == ParseContent(content,
                   [raised |-> FALSE, action_key |-> FALSE, item |-> Item(""),
                    found |-> FALSE, last_output_text |-> ""])
    IN  IF acc.raised THEN Raised
        ELSE IF ~acc.found
        THEN Returned(TRUE, ErrorAction("No valid computer action found"))
        ELSE Returned(acc.action_key, acc.item)

\* ClaudeComputerUseAgent.execute
Claude_execute(f, content) ==
    IF ~f.client
    THEN Done(Returned(TRUE, ErrorAction("Anthropic library not available or API key not provided")),
              FALSE)
    ELSE IF ~f.screenshot_ok THEN Done(Raised, FALSE)
    ELSE IF ~f.render_ok \/ ~f.backend_ok THEN ExceptClause(f)
    ELSE LET ret == Claude_parse_response(content) IN
         IF ret.raised THEN ExceptClause(f) ELSE Done(ret, CompleteFlag(ret))

\* one line of UI-TARS text as the regular expressions of the converter see
\* it: an optional "Action:" prefix, the pattern it has the form of, and the
\* groups the pattern captures ("other": no pattern matches)
Line(prefix, form, text, x, y) ==
    [prefix |-> prefix, form |-> form, text |-> text, x |-> x, y |-> y]

\* json.loads(convert_ui_tars_action_to_json(action_str))
convert_ui_tars_action_to_json(line) ==
    LET output_dict == [Item("") EXCEPT !.value = None, !.position = None] IN
    CASE line.form = "click" ->
            [output_dict EXCEPT !.action = "CLICK",
                                !.position = XY(line.x, line.y)]
      [] line.form = "hotkey" ->
            IF Lower(line.text) = "enter"
            THEN [output_dict EXCEPT !.action = "ENTER"]
            ELSE IF Lower(line.text) = "esc"
            THEN [output_dict EXCEPT !.action = "ESC"]
            ELSE [output_dict EXCEPT !.action = "HOTKEY",
                                     !.value = Str(Lower(line.text))]
      [] line.form = "type" ->
            [output_dict EXCEPT !.action = "INPUT", !.value = Str(line.text)]
      [] line.form = "scroll" ->
            [output_dict EXCEPT !.action = "SCROLL", !.value = Str(line.text)]
      [] line.form \in {"wait()", "finished()", "call_user()"} ->
            [output_dict EXCEPT !.action = "STOP"]
      [] OTHER -> [output_dict EXCEPT !.action = "STOP"]

\* UITarsAgent.execute, line 31: the reply the agent works on
ui_tars_action == Line(FALSE, "click", "", 200, 150)

\* UITarsAgent.execute, lines 37-46, for the reply `line`
UITars_normalize(line) ==
    Done(Returned(TRUE, convert_ui_tars_action_to_json(line)),
         line.form = "finished()")

\* UITarsAgent.execute
UITars_execute(f) ==
    IF ~f.screenshot_ok THEN Done(Raised, FALSE)
    ELSE UITars_normalize(ui_tars_action)

\* sampling_loop.py lines 107-124 for one action received from the server:
\* STOP ends the run, anything else goes to the executor and the run goes on
LoopHandles(item) ==
    IF IsStopAction(item) THEN [ends |-> TRUE, ops |-> <<>>]
    ELSE LET parsed == _parse_actor_output(item) IN
         [ends |-> FALSE,
          ops |-> IF HasActions(parsed) THEN parsed.ops ELSE <<>>]

(***************************************************************************)
(* The normalizers by themselves: one call of execute() or of the UI-TARS  *)
(* converter, then the loop's handling of what came back.                  *)
(***************************************************************************)
\* longest token list of a keypress, longest response.output
MaxTokens == 2
MaxOutputs == 2

\* sequences over S of every length up to n
SeqsUpTo(S, n) == UNION {[1 .. m -> S] : m \in 0 .. n}

KeyNames == {"a", "A", "7", "ctrl", "Shift", "space", "Space", "enter", " "}

\* the keys attribute of a keypress: a list of names, or one string
KeypressKeys ==
    {List(q) : q \in SeqsUpTo(KeyNames, MaxTokens)}
        \cup {[k |-> "plus", parts |-> q] :
                q \in {<<"">>, <<"a">>, <<"space">>, <<"ctrl", "a">>,
                       <<"", "">>}}

KeypressCalls ==
    {<<ComputerCall([CallAction("keypress") EXCEPT !.keys = ks])>> :
        ks \in KeypressKeys \cup {Absent}}

\* computer calls and other items that make up the longer responses
OutputItems ==
    {ComputerCall([CallAction("click") EXCEPT !.x = Num(100), !.y = Num(200)]),
     ComputerCall([CallAction("click") EXCEPT !.x = Num(100), !.y = Num(200),
                                              !.button = Str("Right")]),
     ComputerCall([CallAction("double_click") EXCEPT !.x = Num(3)]),
     ComputerCall(CallAction("move")),
     ComputerCall([CallAction("keypress") EXCEPT
                      !.keys = List(<<"ctrl", "a">>)]),
     ComputerCall([CallAction("scroll") EXCEPT !.scroll_y = Num(300),
                                               !.x = Num(960), !.y = Num(540)]),
     ComputerCall([CallAction("scroll") EXCEPT !.scroll_y = None]),
     ComputerCall(CallAction("wait")),
     ComputerCall([CallAction("type") EXCEPT !.text = Str("hi")]),
     ComputerCall([CallAction("drag") EXCEPT
                      !.path = List(<<XY(10, 10), None, XY(50, 60)>>)]),
     ComputerCall([CallAction("drag") EXCEPT !.x = Num(5), !.y = Num(6)]),
     ComputerCall(CallAction("drag")),
     ComputerCall(CallAction("screenshot")),
     ComputerCall(CallAction("teleport")),
     ComputerCall(CallAction("")),
     OutputText("all done"), OutputText(""), Reasoning}

OAIResponses == SeqsUpTo(OutputItems, MaxOutputs) \cup KeypressCalls

ContentItems ==
    {TextBlock, ToolUse("left_click", XY(512, 384)),
     ToolUse("left_click", XY(1024, 768)), ToolUse("left_click", Absent),
     ToolUse("double_click", XY(1, 1)), ToolUse("type", Absent),
     ToolUse("teleport", Absent), ToolUse("", Absent)}

ClaudeResponses == SeqsUpTo(ContentItems, MaxOutputs)

UITarsLines ==
    {Line(p, "click", "", 153, 97) : p \in BOOLEAN}
        \cup {Line(FALSE, "hotkey", k, 0, 0) : k \in {"Enter", "ESC", "ctrl"}}
        \cup {Line(FALSE, "type", c, 0, 0) : c \in {"some text", ""}}
        \cup {Line(FALSE, "scroll", d, 0, 0) : d \in {"down", "up", "left", "right"}}
        \cup {Line(p, f, "", 0, 0) :
                p \in BOOLEAN,
                f \in {"wait()", "finished()", "call_user()", "other"}}

AllFaults ==
    {Faults(cl, lg, sc, rd, be, ld) :
        cl \in BOOLEAN, lg \in BOOLEAN, sc \in BOOLEAN, rd \in BOOLEAN,
        be \in BOOLEAN, ld \in BOOLEAN}

\* responses every combination of faults is tried with
FaultResponses ==
    {<<ComputerCall([CallAction("click") EXCEPT !.x = Num(100), !.y = Num(200)])>>,
     <<ComputerCall(CallAction("drag"))>>, <<>>}

FaultContents == {<<ToolUse("left_click", XY(512, 384))>>,
                  <<ToolUse("left_click", Absent)>>, <<>>}

NormCall(fn, f, response, line) ==
    [fn |-> fn, faults |-> f, response |-> response, line |-> line,
     shot |-> XY(1920, 1080), pc |-> "called", out |-> Done(Raised, FALSE),
     loop |-> [ends |-> FALSE, ops |-> <<>>]]

NoLine == Line(FALSE, "other", "", 0, 0)

\* width and height of the image at screenshot_path
ScreenshotSizes == {XY(1920, 1080), XY(2560, 1440), XY(1024, 768)}

NormCalls ==
    {NormCall("OAIOperatorAgent.execute", NoFault, r, NoLine) :
        r \in OAIResponses}
    \cup {NormCall("OAIOperatorAgent.execute", f, r, NoLine) :
            f \in AllFaults, r \in FaultResponses}
    \cup {[NormCall("ClaudeComputerUseAgent.execute", NoFault, r, NoLine)
                EXCEPT !.shot = s] :
            r \in ClaudeResponses, s \in ScreenshotSizes}
    \cup {NormCall("ClaudeComputerUseAgent.execute", f, r, NoLine) :
            f \in AllFaults, r \in FaultContents}
    \cup {NormCall("UITarsAgent.execute", f, <<>>, NoLine) : f \in AllFaults}
    \cup {NormCall("convert_ui_tars_action_to_json", NoFault, <<>>, l) :
            l \in UITarsLines}

InitNorm == Constructed /\ call \in NormCalls

Returns(out) == call' = [call EXCEPT !.pc = "returned", !.out = out]

OAIExecute ==
    /\ call.fn = "OAIOperatorAgent.execute" /\ call.pc = "called"
    /\ Returns(OAI_execute(call.faults, call.response))
    /\ UNCHANGED <<system, shared, req, wk, gen, raised_by>>

ClaudeExecute ==
    /\ call.fn = "ClaudeComputerUseAgent.execute" /\ call.pc = "called"
    /\ Returns(Claude_execute(call.faults, call.response))
    /\ UNCHANGED <<system, shared, req, wk, gen, raised_by>>

UITarsExecute ==
    /\ call.fn = "UITarsAgent.execute" /\ call.pc = "called"
    /\ Returns(UITars_execute(call.faults))
    /\ UNCHANGED <<system, shared, req, wk, gen, raised_by>>

\* the converter on a reply of the UI-TARS grammar, with the completion
\* flag execute() derives from the same reply
UITarsConvert ==
    /\ call.fn = "convert_ui_tars_action_to_json" /\ call.pc = "called"
    /\ Returns(UITars_normalize(call.line))
    /\ UNCHANGED <<system, shared, req, wk, gen, raised_by>>

\* the action reaches the client's loop as generated_action.content
LoopReceives ==
    /\ call.fn # "none" /\ call.fn # "_parse_actor_output"
    /\ call.pc = "returned" /\ ~call.out.raised
    /\ call' = [call EXCEPT !.pc = "handled",
                            !.loop = LoopHandles(call.out.item)]
    /\ UNCHANGED <<system, shared, req, wk, gen, raised_by>>

NextNorm ==
    OAIExecute \/ ClaudeExecute \/ UITarsExecute \/ UITarsConvert
        \/ LoopReceives

SpecNorm == InitNorm /\ [][NextNorm]_vars

\* a normalizer was called and has returned (not raised)
NormReturned ==
    /\ call.fn \notin {"none", "_parse_actor_output"}
    /\ call.pc # "called"
    /\ ~call.out.raised

\* C13: every action returned by one of the three normalizers has an
\* "action" key whose value is a tag of the canonical vocabulary; a computer
\* call of an unhandled or unknown type gives ERROR, never a dict without tag.
C13_ActionTagAlwaysPresent ==
    NormReturned =>
        (call.out.action_key /\ call.out.item.action \in CanonicalTags)

\* the backend's reply holds no action the normalizer recognizes: a UI-TARS
\* line that matches no pattern, an OpenAI output without a computer call, a
\* Claude content without a left_click tool use
Unrecognized ==
    \/ call.fn = "convert_ui_tars_action_to_json" /\ call.line.form = "other"
    \/ /\ call.fn = "OAIOperatorAgent.execute" /\ call.faults = NoFault
       /\ \A i \in 1 .. Len(call.response) :
             call.response[i].type # "computer_call"
    \/ /\ call.fn = "ClaudeComputerUseAgent.execute" /\ call.faults = NoFault
       /\ \A i \in 1 .. Len(call.response) :
             call.response[i].action # "left_click"

\* C14: when the backend produces no recognizable action the normalizer
\* returns the ERROR action with complete = false, and the loop treats it as
\* a step that is not fatal: no operation is executed and the run goes on.
C14_UnrecognizedIsNonFatalError ==
    (Unrecognized /\ call.pc # "called") =>
        /\ ~call.out.raised
        /\ call.out.item.action = "ERROR" /\ ~call.out.complete
        /\ call.pc = "handled" =>
              (~call.loop.ends /\ call.loop.ops = <<>>)

\* execute() as called with these faults and this response
Execute(fn, f, response) ==
    CASE fn = "OAIOperatorAgent.execute" -> OAI_execute(f, response)
      [] fn = "ClaudeComputerUseAgent.execute" -> Claude_execute(f, response)
      [] OTHER -> UITars_execute(f)

\* C15: execute() of each adapter returns a pair and never raises; an
\* unreadable screenshot, a failed prompt render or a failed backend call
\* gives {action: ERROR, position: [0, 0]} with complete = false; a log
\* directory that cannot be written changes nothing in what is returned.
C15_ExecuteNeverRaises ==
    (/\ call.fn \in {"OAIOperatorAgent.execute",
                     "ClaudeComputerUseAgent.execute", "UITarsAgent.execute"}
     /\ call.pc # "called") =>
        LET f == call.faults IN
        /\ ~call.out.raised
        /\ (~f.screenshot_ok \/ ~f.render_ok \/ ~f.backend_ok) =>
              /\ call.out.action_key
              /\ call.out.item.action = "ERROR"
              /\ call.out.item.position = XY(0, 0)
              /\ ~call.out.complete
        /\ call.out = Execute(call.fn, [f EXCEPT !.logdir_ok = TRUE],
                              call.response)

\* the call normalizes one keypress whose keys are a list of names
KeypressOfList ==
    /\ call.fn = "OAIOperatorAgent.execute" /\ call.faults = NoFault
    /\ call.pc # "called"
    /\ Len(call.response) = 1
    /\ call.response[1].type = "computer_call"
    /\ call.response[1].action.type = "keypress"
    /\ call.response[1].action.keys.k = "list"

\* C16 as stated, for a list with at least one token: all tokens single
\* printable characters and none a modifier gives INPUT with the tokens
\* concatenated; a lone "space" gives INPUT " "; every other list gives
\* HOTKEY with the lowercased tokens joined by "+".
C16_KeypressClassification ==
    (KeypressOfList /\ call.response[1].action.keys.q # <<>>) =>
        LET tokens == call.response[1].action.keys.q
            lowered == [i \in 1 .. Len(tokens) |-> Lower(tokens[i])]
            typing == \A i \in 1 .. Len(tokens) :
                         /\ is_printable_char(tokens[i])
                         /\ lowered[i] \notin modifiers
            item == call.out.item
        IN  /\ ~call.out.raised
            /\ IF typing
               THEN item.action = "INPUT" /\ item.value = Joined("", tokens)
               ELSE IF tokens = <<"space">>
               THEN item.action = "INPUT" /\ item.value = Str(" ")
               ELSE /\ item.action = "HOTKEY"
                    /\ item.value = Joined("+", lowered)

(***************************************************************************)
(* The screen resolvers by themselves: the executor's offset of the        *)
(* selected screen and the region the screenshot is taken of.              *)
(***************************************************************************)
\* most monitors attached at once
MaxMonitors == 3

Monitor(x, y) == [x |-> x, y |-> y, width |-> 1920, height |-> 1080]

\* monitors the host may have; no two share an x origin
MonitorPool ==
    {Monitor(0, 0), Monitor(1920, 0), Monitor(0 - 1920, 120), Monitor(3840, 60)}

\* get_monitors(): the attached monitors in the order the system lists them
MonitorLists ==
    {q \in SeqsUpTo(MonitorPool, MaxMonitors) :
        \A i, j \in 1 .. Len(q) : i # j => q[i] # q[j]}

\* sorted(screens, key=lambda s: s.x)
SortedByX(q) ==
    CHOOSE p \in [1 .. Len(q) -> {q[i] : i \in 1 .. Len(q)}] :
        /\ \A i, j \in 1 .. Len(q) : i < j => p[i].x < p[j].x
        /\ \A i \in 1 .. Len(q) : \E j \in 1 .. Len(q) : p[j] = q[i]

\* pyautogui.size(): the primary screen
PrimaryRegion == [x |-> 0, y |-> 0, width |-> 1920, height |-> 1080]

\* AlohaExecutor._get_selected_screen_offset: the origin of the selected
\* screen, or IndexError (None here)
_get_selected_screen_offset(sys, screens, idx) ==
    IF sys \in {"windows", "darwin"}
    THEN IF idx < 0 \/ idx >= Len(screens) THEN None
         ELSE LET screen == SortedByX(screens)[idx + 1] IN XY(screen.x, screen.y)
    ELSE XY(0, 0)

\* max(0, min(selected_screen, len(screens) - 1))
ClampIndex(idx, n) ==
    LET m == IF idx < n - 1 THEN idx ELSE n - 1 IN IF m > 0 THEN m ELSE 0

\* GUICapture._monitor_region
_monitor_region(screens, idx) ==
    IF screens = <<>> THEN PrimaryRegion
    ELSE LET m == SortedByX(screens)[ClampIndex(idx, Len(screens)) + 1] IN
         IF m.x < 0 \/ m.y < 0 THEN PrimaryRegion ELSE m

ScreenCalls ==
    {[fn |-> f, screens |-> q, idx |-> i, pc |-> "called", out |-> None] :
        f \in {"_get_selected_screen_offset", "_monitor_region"},
        q \in MonitorLists, i \in -1 .. MaxMonitors + 1}

InitScreen == Constructed /\ call \in ScreenCalls

ResolveOffset ==
    /\ call.fn = "_get_selected_screen_offset" /\ call.pc = "called"
    /\ call' = [call EXCEPT !.pc = "returned",
                  !.out = _get_selected_screen_offset(system, call.screens,
                                                      call.idx)]
    /\ UNCHANGED <<system, shared, req, wk, gen, raised_by>>

MonitorRegion ==
    /\ call.fn = "_monitor_region" /\ call.pc = "called"
    /\ call' = [call EXCEPT !.pc = "returned",
                  !.out = LET m == _monitor_region(call.screens, call.idx)
                          IN  XY(m.x, m.y)]
    /\ UNCHANGED <<system, shared, req, wk, gen, raised_by>>

NextScreen == ResolveOffset \/ MonitorRegion

SpecScreen == InitScreen /\ [][NextScreen]_vars

\* C17: index i resolves to the origin of the i-th display from the left,
\* and an index outside [0, N) raises an out-of-range error in the executor's
\* offset resolution and in the screenshot-region selection, on every
\* platform; it is never clamped to a valid display.
C17_IndexResolvedOrRejected ==
    (call.fn \in {"_get_selected_screen_offset", "_monitor_region"}
     /\ call.pc = "returned") =>
        IF call.idx >= 0 /\ call.idx < Len(call.screens)
        THEN LET m == SortedByX(call.screens)[call.idx + 1] IN
             call.out = XY(m.x, m.y)
        ELSE call.out = None

(***************************************************************************)
(* Properties of the decomposer.                                           *)
(***************************************************************************)
\* the decomposer was called on an action with this tag and has returned
DecomposerDone(tag) ==
    call.fn = "_parse_actor_output" /\ call.done /\ call.arg.action = tag

\* the vertical amount of a SCROLL: the value, or the second of a pair
ScrollAmount(item) ==
    LET val == GetOrNone(item.value) IN
    IF val.k = "xy" THEN Num(val.y) ELSE val

\* str(-v) of a number v
NegStr(v) ==
    IF v.k = "num" THEN IntStr(0 - v.n) ELSE FloatStr(0 - 100 * v.tenths)

\* C18 as stated: SCROLL gives a scroll operation whose text is str(-v) for
\* a scalar v and str(-y) for a pair [x, y], after a mouse_move when a
\* position is given; a missing or non-numeric value gives no operation.
C18_ScrollNegatedAmount ==
    DecomposerDone("SCROLL") =>
        LET item == call.arg
            v == ScrollAmount(item)
            ops == call.out.ops
        IN  /\ (v.k \in {"num", "float"} /\ item.position.k = "xy") =>
                  (/\ call.out.ok
                   /\ ops = <<Op("mouse_move", None, item.position),
                              Op("scroll", NegStr(v), item.position)>>)
            /\ (v.k \in {"num", "float"}
                /\ item.position.k \in {"absent", "none"}) =>
                  (call.out.ok /\ ops = <<Op("scroll", NegStr(v), None)>>)
            /\ v.k \in {"none", "str", "list"} =>
                  (~call.out.ok /\ ops = <<>>)

\* C18, amended: the text of the scroll operation is str(-int(float(v))):
\* the vertical amount (the value, or y of a pair [x, y]) made an integer,
\* a fraction cut toward zero and a numeric string parsed, then negated;
\* a given position puts a mouse_move to it in front and is the scroll's
\* coordinate; a missing value, one that is not a number, or a position that
\* is not a pair gives no operation.
C18_ScrollNegatedInteger ==
    DecomposerDone("SCROLL") =>
        LET item == call.arg
            v == ScrollAmount(item)
            ops == call.out.ops
            numeric == v.k \in {"num", "float", "intstr"}
        IN  /\ call.out.ok <=>
                  (numeric /\ item.position.k \in {"absent", "none", "xy"})
            /\ ~call.out.ok => ops = <<>>
            /\ call.out.ok =>
                  LET sc == ops[Len(ops)] IN
                  /\ sc.action = "scroll" /\ sc.text.k = "intstr"
                  /\ v.k \in {"num", "intstr"} => sc.text.n = 0 - v.n
                  /\ v.k = "float" =>
                        (/\ 10 * sc.text.n <= 10 + (0 - v.tenths)
                         /\ 10 * sc.text.n >= (0 - v.tenths) - 10
                         /\ (v.tenths >= 0 => 10 * sc.text.n >= 0 - v.tenths)
                         /\ (v.tenths <= 0 => 10 * sc.text.n <= 0 - v.tenths))
                  /\ IF item.position.k = "xy"
                     THEN /\ Len(ops) = 2
                          /\ ops[1] = Op("mouse_move", None, item.position)
                          /\ sc.coordinate = item.position
                     ELSE Len(ops) = 1 /\ sc.coordinate = None

\* a SCROLL by 2.5 at a position has given a mouse_move and scroll("-2")
C18_Witness ==
    /\ DecomposerDone("SCROLL")
    /\ call.arg.value = Flt(25) /\ call.arg.position = XY(960, 540)
    /\ call.out.ops = <<Op("mouse_move", None, XY(960, 540)),
                        Op("scroll", IntStr(0 - 2), XY(960, 540))>>

\* a field that is present and not None
Given(v) == v.k \notin {"absent", "none"}

C20_WaitMsTakesPriority ==
    DecomposerDone("WAIT") =>
        LET item == call.arg IN
        /\ item.ms.k = "num" =>
              (/\ call.out.ok
               /\ call.out.ops = <<Op("wait", FloatStr(item.ms.n), None)>>)
        /\ (item.ms.k = "absent" /\ item.seconds.k = "absent") =>
              (/\ call.out.ok
               /\ call.out.ops = <<Op("wait", FloatStr(5000), None)>>)

(***************************************************************************)
(* The executor and the device tool by themselves: AlohaExecutor is        *)
(* constructed for a selected screen, called on one canonical action, and  *)
(* ComputerTool turns each operation into calls of the input library.      *)
(***************************************************************************)
\* one call of the input library (pyautogui); key and text are "" / None
\* and the numbers 0 where the call has no such argument
Ev(e, key, text, x, y, n) ==
    [e |-> e, key |-> key, text |-> text, x |-> x, y |-> y, n |-> n]

\* faulty construction: ComputerTool with its default arguments, which
\* scales the coordinate and adds the origin of its screen
Tool_defaults(off) ==
    [offset |-> off, is_scaling |-> TRUE, coords_are_global |-> FALSE]

\* ComputerTool as AlohaExecutor.__init__ constructs it (line 28), with the
\* origin of its screen (computer.py lines 202-203)
Tool(off) ==
    [offset |-> off, is_scaling |-> FALSE, coords_are_global |-> TRUE]

\* round(a / b) for b > 0
Round(a, b) == (2 * a + b) \div (2 * b)

\* scale_coordinates(ScalingSource.API, x, y) on a 1920 x 1080 screen: the
\* target with that aspect ratio is FWXGA, 1366 x 768
scale_coordinates(c) == XY(Round(c.x * 1920, 1366), Round(c.y * 1080, 768))

_scale_and_offset(tool, c) ==
    LET s == IF tool.is_scaling THEN scale_coordinates(c) ELSE c IN
    IF tool.coords_are_global THEN s
    ELSE XY(s.x + tool.offset.x, s.y + tool.offset.y)

\* the coordinate with the tool's offset unless it is global, or
\* pyautogui.position() when there is none
_offset_or_cursor(tool, c, cursor) ==
    IF c.k = "none" THEN cursor
    ELSE IF tool.coords_are_global THEN c
    ELSE XY(c.x + tool.offset.x, c.y + tool.offset.y)

\* text.split("+") of the key texts the decomposer is given here
SplitPlus(text) ==
    CASE text = Str("ctrl+s") -> <<"ctrl", "s">>
      [] text = Str("ctrl+Shift+Escape") -> <<"ctrl", "Shift", "Escape">>
      [] text = Str("cmd + Page_Down") -> <<"cmd ", " Page_Down">>
      [] text = Str("a+a") -> <<"a", "a">>
      [] OTHER -> <<text.s>>

\* self.key_conversion.get(name, name)
key_conversion(name) ==
    CASE name = "Page_Down" -> "pagedown"
      [] name = "Page_Up" -> "pageup"
      [] name = "Super_L" -> "win"
      [] name = "Escape" -> "esc"
      [] name = "cmd" -> "command"
      [] OTHER -> name

\* the name handed to keyDown and keyUp
KeyName(k) == Lower(key_conversion(Strip(k)))

\* faulty key handler: the keys are released in the order they were pressed
_handle_key_actions_forward(op) ==
    LET keys == SplitPlus(op.text)
        n == Len(keys)
    IN  IF op.action = "key"
        THEN [i \in 1 .. 2 * n |->
                IF i <= n THEN Ev("keyDown", KeyName(keys[i]), None, 0, 0, 0)
                ELSE Ev("keyUp", KeyName(keys[i - n]), None, 0, 0, 0)]
        ELSE <<Ev("typewrite", "", op.text, 0, 0, 0)>>

\* ComputerTool._handle_key_actions for key and type, arguments checked
_handle_key_actions(op) ==
    LET keys == SplitPlus(op.text)
        n == Len(keys)
    IN  IF op.action = "key"
        THEN [i \in 1 .. 2 * n |->
                IF i <= n THEN Ev("keyDown", KeyName(keys[i]), None, 0, 0, 0)
                ELSE Ev("keyUp", KeyName(keys[2 * n + 1 - i]), None, 0, 0, 0)]
        ELSE <<Ev("typewrite", "", op.text, 0, 0, 0)>>

\* int(float(text)) of an operation's text
TextAmount(text) ==
    IF text.k = "intstr" THEN text.n
    ELSE IF text.milli >= 0 THEN text.milli \div 1000
    ELSE 0 - ((0 - text.milli) \div 1000)

\* int(amt / 14) on darwin, never 0 for an amount that is not 0
ScrollAmt(sys, raw) ==
    IF sys # "darwin" THEN raw
    ELSE LET amt == IF raw >= 0 THEN raw \div 14 ELSE 0 - ((0 - raw) \div 14)
         IN  IF amt = 0 /\ raw # 0 THEN (IF raw > 0 THEN 1 ELSE 0 - 1) ELSE amt

\* ComputerTool.__call__ on an operation whose arguments pass the checks:
\* the calls of the input library, in order
ToolEvents(sys, tool, op, cursor) ==
    CASE op.action = "mouse_move" ->
            LET p == _scale_and_offset(tool, op.coordinate) IN
            <<Ev("moveTo", "", None, p.x, p.y, 0)>>
      [] op.action = "left_click_drag" ->
            LET p == _scale_and_offset(tool, op.coordinate) IN
            <<Ev("dragTo", "", None, p.x, p.y, 0)>>
      [] op.action \in {"key", "type"} -> _handle_key_actions(op)
      [] op.action \in {"left_click", "right_click", "double_click",
                        "triple_click", "left_press"} ->
            LET p == _offset_or_cursor(tool, op.coordinate, cursor) IN
            <<Ev(op.action, "", None, p.x, p.y, 0)>>
      [] op.action = "scroll" ->
            LET amt == ScrollAmt(sys, TextAmount(op.text))
                p == _offset_or_cursor(tool, op.coordinate, cursor)
            IN  <<Ev("scroll", "", None, p.x, p.y, amt)>>
      [] op.action = "wait" ->
            LET seconds == IF op.text.k \in {"intstr", "floatstr"}
                           THEN TextAmount(op.text) ELSE 5
            IN  <<Ev("sleep", "", None, 0, 0,
                     IF seconds > 0 THEN seconds ELSE 0)>>
      [] OTHER -> <<>>

\* where the pointer is after these calls
CursorAfter(cursor, evs) ==
    LET moves == {i \in 1 .. Len(evs) :
                    evs[i].e \notin {"keyDown", "keyUp", "typewrite", "sleep"}}
    IN  IF moves = {} THEN cursor
        ELSE LET i == CHOOSE m \in moves : \A j \in moves : j <= m IN
             XY(evs[i].x, evs[i].y)

\* ComputerTool.__init__: the tool, or the exception raised; on a host
\* that is neither windows nor darwin line 202 reads the local `screen`
\* that no branch has bound, unless xrandr has failed before
ComputerTool_init(sys, screens, idx, xrandr_ok) ==
    IF sys \in {"windows", "darwin"}
    THEN IF idx < 0 \/ idx >= Len(screens)
         THEN [raised |-> "IndexError", tool |-> Tool(None)]
         ELSE LET screen == SortedByX(screens)[idx + 1] IN
              [raised |-> "none", tool |-> Tool(XY(screen.x, screen.y))]
    ELSE [raised |-> IF xrandr_ok THEN "UnboundLocalError" ELSE "RuntimeError",
          tool |-> Tool(None)]

\* canonical actions handed to the executor
DeviceItems ==
    {[Item(t) EXCEPT !.position = p] :
        t \in {"CLICK", "RIGHT_CLICK", "DOUBLE_CLICK", "TRIPLE_CLICK", "MOVE",
               "PRESS"},
        p \in {XY(100, 200), XY(0, 0), None}}
    \cup {[Item("DRAG") EXCEPT !.from = XY(10, 10), !.to = XY(50, 60)]}
    \cup {[Item("SCROLL") EXCEPT !.value = v, !.position = p] :
            v \in {Num(120), XY(0, 300)}, p \in {Absent, XY(960, 540)}}
    \cup {[Item("KEY") EXCEPT !.value = v] :
            v \in {Str("a"), Str("ctrl+s"), Str("ctrl+Shift+Escape"),
                   Str("cmd + Page_Down"), Str("a+a"), None,
                   List(<<Str("ctrl"), Str("s")>>)}}
    \cup {Item("ENTER"), Item("ESC"), Item("PAUSE"),
          [Item("INPUT") EXCEPT !.text = Str("hi")],
          [Item("WAIT") EXCEPT !.ms = Num(2000)]}

DeviceCalls ==
    {[fn |-> "AlohaExecutor", screens |-> q, idx |-> i, arg |-> item,
      pc |-> "new", raised |-> "none", offset |-> None, tool |-> Tool(None),
      emitted |-> <<>>, action_list |-> <<>>, i |-> 0,
      cursor |-> XY(5, 5), mark |-> 0, events |-> <<>>] :
        q \in MonitorLists, i \in 0 .. MaxMonitors, item \in DeviceItems}

InitDevice == Constructed /\ call \in DeviceCalls

\* AlohaExecutor.__init__, lines 22-30
Construct ==
    /\ call.fn = "AlohaExecutor" /\ call.pc = "new"
    /\ LET off == _get_selected_screen_offset(system, call.screens, call.idx)
       IN  IF off = None
           THEN call' = [call EXCEPT !.pc = "raised", !.raised = "IndexError"]
           ELSE \E xrandr_ok \in BOOLEAN :
                  LET t == ComputerTool_init(system, call.screens, call.idx,
                                             xrandr_ok)
                  IN  call' = [call EXCEPT
                                 !.offset = off, !.tool = t.tool,
                                 !.raised = t.raised,
                                 !.pc = IF t.raised = "none" THEN "ready"
                                        ELSE "raised"]
    /\ UNCHANGED <<system, shared, req, wk, gen, raised_by>>

\* AlohaExecutor.__call__, lines 76-95: the action is decomposed
Call ==
    /\ call.fn = "AlohaExecutor" /\ call.pc = "ready"
    /\ LET parsed == _parse_actor_output(call.arg)
           ops == IF HasActions(parsed) THEN parsed.ops ELSE <<>>
       IN  call' = [call EXCEPT !.emitted = ops, !.action_list = ops,
                                !.i = 1,
                                !.pc = IF ops = <<>> THEN "done" ELSE "x98"]
    /\ UNCHANGED <<system, shared, req, wk, gen, raised_by>>

\* lines 98-119: the coordinate of the next operation is made global; a
\* no-op is acknowledged and the loop continues
Convert ==
    /\ call.fn = "AlohaExecutor" /\ call.pc = "x98"
    /\ LET op == call.action_list[call.i]
           coord == op.coordinate
           global == IF coord.k = "xy"
                     THEN XY(coord.x + call.offset.x, coord.y + call.offset.y)
                     ELSE coord
           last == call.i = Len(call.action_list)
       IN  call' = [call EXCEPT
                      !.action_list[call.i].coordinate = global,
                      !.i = IF op.action = "__no_op__" THEN @ + 1 ELSE @,
                      !.mark = Len(call.events),
                      !.pc = IF op.action # "__no_op__" THEN "x129"
                             ELSE IF last THEN "done" ELSE "x98"]
    /\ UNCHANGED <<system, shared, req, wk, gen, raised_by>>

\* lines 129-134: the tool is run on the operation to its end
RunTool ==
    /\ call.fn = "AlohaExecutor" /\ call.pc = "x129"
    /\ LET op == call.action_list[call.i]
           evs == IF ToolRaises(op) THEN <<>>
                  ELSE ToolEvents(system, call.tool, op, call.cursor)
       IN  call' = [call EXCEPT
                      !.events = @ \o evs,
                      !.cursor = CursorAfter(@, evs),
                      !.i = @ + 1,
                      !.pc = IF call.i = Len(call.action_list) THEN "done"
                             ELSE "x98"]
    /\ UNCHANGED <<system, shared, req, wk, gen, raised_by>>

NextDevice == Construct \/ Call \/ Convert \/ RunTool

SpecDevice == InitDevice /\ [][NextDevice]_vars

(***************************************************************************)
(* Properties of the executor and the device tool.                         *)
(***************************************************************************)
\* the executor has decomposed an action with this tag
ExecutorParsed(tags) ==
    /\ call.fn = "AlohaExecutor" /\ call.pc \in {"x98", "x129", "done"}
    /\ call.arg.action \in tags

\* the origin of the screen the executor was constructed for
SelectedOrigin ==
    LET m == SortedByX(call.screens)[call.idx + 1] IN XY(m.x, m.y)

\* C21: CLICK and RIGHT_CLICK at p give [mouse_move(p), left_click(p)] and
\* [mouse_move(p), right_click(p)]; DOUBLE_CLICK and TRIPLE_CLICK at p give
\* [mouse_move(p), double_click] and [mouse_move(p), triple_click] whose
\* second operation has no coordinate, and the device clicks where the move
\* has put the pointer.
C21_ClickFamily ==
    (ExecutorParsed({"CLICK", "RIGHT_CLICK", "DOUBLE_CLICK", "TRIPLE_CLICK"})
     /\ call.arg.position.k = "xy") =>
        LET tag == call.arg.action
            p == call.arg.position
            second == CASE tag = "CLICK" -> "left_click"
                        [] tag = "RIGHT_CLICK" -> "right_click"
                        [] tag = "DOUBLE_CLICK" -> "double_click"
                        [] tag = "TRIPLE_CLICK" -> "triple_click"
            carried == IF tag \in {"CLICK", "RIGHT_CLICK"} THEN p ELSE None
        IN  /\ call.emitted = <<Op("mouse_move", None, p),
                                Op(second, None, carried)>>
            /\ call.pc = "done" =>
                  /\ Len(call.events) = 2
                  /\ call.events[1].e = "moveTo" /\ call.events[2].e = second
                  /\ call.events[2].x = call.events[1].x
                  /\ call.events[2].y = call.events[1].y
                  /\ call.cursor = XY(call.events[1].x, call.events[1].y)

\* a DOUBLE_CLICK at (100,200) on a screen whose origin is not (0,0) has
\* been executed: the move and then the double click at the moved pointer
C21_Witness ==
    /\ ExecutorParsed({"DOUBLE_CLICK"}) /\ call.pc = "done"
    /\ call.arg.position = XY(100, 200)
    /\ SelectedOrigin = XY(1920, 0)
    /\ call.emitted[2] = Op("double_click", None, None)
    /\ call.events = <<Ev("moveTo", "", None, 2020, 200, 0),
                       Ev("double_click", "", None, 2020, 200, 0)>>

(***************************************************************************)
(* Further properties of the normalizers.                                  *)
(***************************************************************************)
\* the last left_click of a reply, the one whose position is returned
LastLeftClick(content) ==
    LET idx == {i \in 1 .. Len(content) :
                  content[i].type = "tool_use" /\ content[i].action = "left_click"}
    IN  content[CHOOSE i \in idx : \A j \in idx : j <= i]

\* C22: the backend with the 1024 x 768 virtual display returns the position
\* (x * W / 1024, y * H / 768), cut to integers, for a reported coordinate
\* (x, y) and a screenshot of W x H, whatever W and H are.
C22_ScaledToScreenshot ==
    (call.fn = "ClaudeComputerUseAgent.execute" /\ NormReturned
     /\ call.out.item.action = "CLICK") =>
        LET c == LastLeftClick(call.response).coordinate IN
        call.out.item.position =
            XY((c.x * call.shot.x) \div 1024, (c.y * call.shot.y) \div 768)

\* C23: on a host that is neither windows nor darwin the construction of
\* the executor completes with the offset (0,0), also when the display
\* utility of the system has failed.
C23_OtherPlatformConstructs ==
    (call.fn = "AlohaExecutor" /\ call.pc # "new"
     /\ system \notin {"windows", "darwin"}) =>
        (call.pc # "raised" /\ call.raised = "none"
         /\ call.offset = XY(0, 0))

(***************************************************************************)
(* Two runs started by concurrent /run_task requests, against a planner    *)
(* that answers every request with a click.                                *)
(***************************************************************************)
NextPair ==
    \E r \in {q \in Reqs : q <= 2} :
        \/ Arrive(r, {"run_task"}, {PayloadMin})
        \/ RunTaskCheck(r) \/ RunTaskUpdate(r) \/ RunTaskClear(r)
        \/ RunTaskStart(r)
        \/ Worker(r)
        \/ GenStart(r) \/ GenWhile(r) \/ GenCapture(r)
        \/ GenPlan(r, {Plan(ActClick)}) \/ GenReasoning(r) \/ GenAct(r)
        \/ ExecOpBegin(r) \/ ExecOpEnd(r) \/ GenStepCount(r)

SpecPair == Init /\ [][NextPair]_vars

\* worker w has issued an operation of its current action and has not yet
\* finished the action
Acting(w) == gen[w].pc \in {"x98", "x129"} /\ gen[w].iter_ops > 0

\* C24: device operations are issued one at a time: while a run is inside
\* the operations of one action no operation of another run is under way,
\* and no operation is under way when a run takes the screenshot of its next
\* iteration.
C24_OneNarrative ==
    /\ \A w, v \in Reqs :
          w # v => ~(Acting(w) /\ gen[v].in_flight # 0)
    /\ \A w \in Reqs :
          gen[w].pc = "l54" => gen[w].in_flight = 0

(***************************************************************************)
(* One run that nothing cuts short: a single /run_task with any step       *)
(* limit, no /stop, and a planner that always answers with an action other *)
(* than STOP.  The threads are scheduled fairly.                           *)
(***************************************************************************)
\* request bodies with every step limit from 0 up
StepPayloads ==
    {Payload({"task", "max_steps"}, "t5", 0, "", "", m) :
        m \in 0 .. ArgMaxSteps + 1}

NextRun ==
    \E r \in {1} :
        \/ Arrive(r, {"run_task"}, StepPayloads \cup {PayloadMin})
        \/ RunTaskCheck(r) \/ RunTaskUpdate(r) \/ RunTaskClear(r)
        \/ RunTaskStart(r)
        \/ Worker(r)
        \/ GenStart(r) \/ GenWhile(r) \/ GenCapture(r)
        \/ GenPlan(r, {Plan(ActClick), Plan(ActPause), Plan(ActTeleport),
                       Plan(ActKeyList)})
        \/ GenReasoning(r) \/ GenAct(r)
        \/ ExecOpBegin(r) \/ ExecOpEnd(r) \/ GenStepCount(r)

SpecRun == Init /\ [][NextRun]_vars /\ WF_vars(NextRun)

\* C25: a run that nothing cuts short ends: the planner is asked only while
\* the step count, which starts at 1, is below max_steps, so at most
\* max_steps - 1 times and never when max_steps <= 1; the loop is left with
\* the step count at max_steps (at 1 when max_steps <= 1), and the worker
\* thread finishes.
C25_RunEndsAtMaxSteps ==
    /\ [](\A w \in Reqs :
            gen[w].pc = "l74" =>
                (gen[w].step_count >= 1
                 /\ gen[w].step_count <= gen[w].args.max_steps - 1))
    /\ [](\A w \in Reqs :
            gen[w].pc = "end" =>
                gen[w].step_count =
                    IF gen[w].args.max_steps <= 1 THEN 1
                    ELSE gen[w].args.max_steps)
    /\ \A w \in Reqs : (gen[w].pc = "l35") ~> (wk[w].pc = "done")

\* a run with the largest step limit has left the loop after its last
\* iteration
C25_Witness ==
    \E w \in Reqs :
        /\ gen[w].pc = "end"
        /\ gen[w].args.max_steps = ArgMaxSteps + 1
        /\ gen[w].step_count = ArgMaxSteps + 1
        /\ wk[w].end = "exhausted"

\* the operation the tool has just been run on, and the calls it made
LastOp == call.action_list[call.i - 1]
LastEvents == SubSeq(call.events, call.mark + 1, Len(call.events))

\* the tool has returned from an operation
ToolReturned ==
    /\ call.fn = "AlohaExecutor" /\ call.pc \in {"x98", "done"}
    /\ call.i > 1 /\ LastOp.action # "__no_op__"

\* C26: an operation that carries a coordinate (x, y), relative to the
\* selected screen, is executed at (x + offset_x, y + offset_y), the offset
\* being the origin of the selected screen: added once by the executor, not
\* again and not rescaled by the tool; the offset and the selected screen
\* stay what they were at construction.
C26_OffsetAddedOnce ==
    /\ (call.fn = "AlohaExecutor" /\ call.pc \in {"ready", "x98", "x129", "done"})
          => (call.offset = SelectedOrigin /\ call.tool.offset = SelectedOrigin)
    /\ ToolReturned =>
          LET c == call.emitted[call.i - 1].coordinate IN
          c.k = "xy" =>
              /\ Len(LastEvents) = 1
              /\ LastEvents[1].x = c.x + SelectedOrigin.x
              /\ LastEvents[1].y = c.y + SelectedOrigin.y

\* a CLICK at (100,200) on the screen whose origin is (-1920,120) has been
\* executed at (-1820,320)
C26_Witness ==
    /\ ToolReturned /\ call.pc = "done"
    /\ call.arg.action = "CLICK" /\ call.arg.position = XY(100, 200)
    /\ call.offset = XY(0 - 1920, 120)
    /\ LastEvents = <<Ev("left_click", "", None, 0 - 1820, 320, 0)>>

\* how many of the calls evs[1..m] are of kind e on key k
RECURSIVE CountKey(_, _, _, _)
CountKey(evs, m, e, k) ==
    IF m = 0 THEN 0
    ELSE CountKey(evs, m - 1, e, k)
            + (IF evs[m].e = e /\ evs[m].key = k THEN 1 ELSE 0)

\* C27: the key operation on k1+k2+...+kn presses k1..kn in that order and
\* then releases kn..k1, each key under the same translated name when
\* pressed and when released; at the end of the operation no key it pressed
\* is still held.
C27_ChordReleasedInReverse ==
    (ToolReturned /\ LastOp.action = "key" /\ LastOp.text.k = "str") =>
        LET keys == SplitPlus(LastOp.text)
            n == Len(keys)
            evs == LastEvents
        IN  /\ Len(evs) = 2 * n
            /\ \A i \in 1 .. n :
                  /\ evs[i].e = "keyDown" /\ evs[2 * n + 1 - i].e = "keyUp"
                  /\ evs[i].key = evs[2 * n + 1 - i].key
                  /\ evs[i].key = Lower(key_conversion(Strip(keys[i])))
            /\ \A i \in 1 .. 2 * n :
                  CountKey(evs, 2 * n, "keyDown", evs[i].key)
                      = CountKey(evs, 2 * n, "keyUp", evs[i].key)

\* the chord ctrl+Shift+Escape has been pressed and released
C27_Witness ==
    /\ ToolReturned /\ LastOp.action = "key"
    /\ LastOp.text = Str("ctrl+Shift+Escape")
    /\ LastEvents = <<Ev("keyDown", "ctrl", None, 0, 0, 0),
                      Ev("keyDown", "shift", None, 0, 0, 0),
                      Ev("keyDown", "esc", None, 0, 0, 0),
                      Ev("keyUp", "esc", None, 0, 0, 0),
                      Ev("keyUp", "shift", None, 0, 0, 0),
                      Ev("keyUp", "ctrl", None, 0, 0, 0)>>

(***************************************************************************)
(* A stop between two runs: /run_task, /stop and /run_task arrive in this  *)
(* order and their handler threads run at any speed; the planner does not  *)
(* answer, so that a run ends by itself after its first iteration.         *)
(***************************************************************************)
NextStale ==
    \E r \in 1 .. 3 :
        \/ Arrive(r, IF r = 2 THEN {"stop"} ELSE {"run_task"}, {PayloadMin})
        \/ Handler(r)
        \/ Worker(r)
        \/ GenStart(r) \/ GenWhile(r) \/ GenCapture(r)
        \/ GenPlan(r, {NoResponse}) \/ GenBreak(r)

SpecStale == Init /\ [][NextStale]_vars

\* worker w is past the clearing of the flags and not yet in its finally
InLoop(w) == wk[w].pc \in {"l47", "next", "chk56", "chk70"}

\* C28: a stop flag that is up while a run is in its loop was raised by a
\* /stop request accepted during that run; a stop accepted during an earlier
\* run, or left over from it, never reaches a later run.
C28_StopStaysInItsRun ==
    \A w \in Reqs :
        (InLoop(w) /\ (should_stop \/ stop_event)) =>
            (raised_by # 0 /\ w \in req[raised_by].during)

C30_DragEndsIndependent ==
    DecomposerDone("DRAG") =>
        LET item == call.arg
            starts == <<item.from, item.start, item.value>>
            ends == <<item.to, item.end, item.position>>
            s1 == {i \in 1 .. 3 : Given(starts[i])}
            e1 == {i \in 1 .. 3 : Given(ends[i])}
            first(S) == CHOOSE i \in S : \A j \in S : i <= j
        IN  IF s1 = {} \/ e1 = {} THEN ~call.out.ok
            ELSE LET s == starts[first(s1)]
                     e == ends[first(e1)]
                 IN  IF s.k = "xy" /\ e.k = "xy"
                     THEN /\ call.out.ok
                          /\ call.out.ops[1].coordinate = s
                          /\ call.out.ops[2].coordinate = e
                     ELSE ~call.out.ok

\* a DRAG with from and end only has been decomposed
C30_Witness ==
    /\ DecomposerDone("DRAG")
    /\ call.arg.from = XY(10, 10) /\ call.arg.to.k = "absent"
    /\ call.arg.end = XY(3, 4) /\ call.arg.start.k = "absent"
    /\ call.arg.value.k = "absent" /\ call.arg.position.k = "absent"
    /\ call.out.ops = <<Op("mouse_move", None, XY(10, 10)),
                        Op("left_click_drag", None, XY(3, 4))>>

====
